---- MODULE Spec2Model ----
(***************************************************************************)
(* Model of the retrieval-augmented context pipeline and caching layer of  *)
(* mark-ai: the market-analysis result cache (market_analysis/cache.py),   *)
(* the text chunker (vectorstore/chunker.py), the context retriever        *)
(* (vectorstore/retrieval.py), the indexer (vectorstore/indexer.py), the   *)
(* market analysis request (market_analysis/analyzer.py), the market size  *)
(* search (market_analysis/google_market_search.py) and the pitch deck     *)
(* request (main.py).                                                      *)
(*                                                                         *)
(* The parameter strings of the cache, the texts of the chunker and of the *)
(* indexer and the output of the inference call are sequences of           *)
(* one-character strings; the documents and headers of the retriever and   *)
(* the texts of the market size search are strings.  Time is a natural     *)
(* number of clock ticks and a time-to-live is a number of ticks.  The     *)
(* cache collection is the one every init_market_cache call of the process *)
(* gets: what one call stores the next call finds; so is the repository's  *)
(* collection for index_repo and retrieve_context.                         *)
(***************************************************************************)
EXTENDS Integers, Sequences, FiniteSets, TLC

VARIABLES
    store,      \* the "market_analysis_cache" collection: id -> [document, metadata]
    clock,      \* what datetime.now() returns
    last,       \* the last cache operation and what it returned
    keyq,       \* a put with one parameter tuple followed by a get with another
    procs,      \* concurrent requests: where each stands and what it has read
    writes,     \* the requests in the order their cache writes finished
    ct,         \* a call of chunk_text: its arguments and its locals
    rc,         \* a call of retrieve_context: the query results and its locals
    index,      \* the repository's collection: the entries in the order added
    ix,         \* the last call of index_repo and the one before it
    gen,        \* a request in generate_market_analysis: where it stands
    sw,         \* a call of clear_expired_cache: the ids it found expired
    ck,         \* a call of chunk_documentation or chunk_commits and its result
    ms,         \* a call of search_market_size: the page fetches and its locals
    pd          \* a request in generate_pitch_deck: where it stands

vars == <<store, clock, last, keyq, procs, writes, ct, rc, index, ix, gen, sw, ck, ms, pd>>

cacheVars == <<store, clock, last, keyq>>
concVars == <<procs, writes, sw>>
idxVars == <<index, ix>>
svcVars == <<ck, ms, pd>>

\* what the cache calls leave alone
notCache == <<concVars, ct, rc, idxVars, gen, svcVars>>

\* what the concurrent requests leave alone
notConc == <<last, keyq, ct, rc, idxVars, gen, svcVars>>

-----------------------------------------------------------------------------
(* Bounds *)

MaxTime == 4        \* the clock stops advancing here
MaxTtl == 2         \* ttl_days is drawn from 1..MaxTtl
MaxStrLen == 1      \* longest parameter string given to get_cache_key
MaxTextLen == 6     \* longest text given to chunk_text
MaxChunkSize == 5   \* chunk_size is drawn from 1..MaxChunkSize
MaxOverlap == 4     \* overlap is drawn from 0..MaxOverlap
MaxChunks == 6      \* chunk_text's loop is followed for this many chunks
MaxResults == 3     \* most results a query returns
MaxDocLen == 1      \* longest chunk text among the results
MaxBudget == 22     \* max_context_chars is drawn from 0..MaxBudget
LongDocLen == 3000  \* the length of the long document given to index_repo
MaxRuns == 2        \* index_repo is called this many times
MaxOutLen == 4      \* longest output of the inference call
MessageLen == 50    \* the length of the commit message of the end-to-end scenario
QueryK == 5         \* the k of the end-to-end scenario
QueryBudget == 10000 \* the max_context_chars of the end-to-end scenario
MaxSweeps == 1      \* clear_expired_cache is called this many times
MaxItems == 4       \* most items in a search response
HugeDocLen == 8000  \* the length of a document of more chunks than are kept
LongDiffLen == 1001 \* the length of a diff longer than max_diff_chars

-----------------------------------------------------------------------------
(* Helpers *)

Min(a, b) == IF a < b THEN a ELSE b
Max(a, b) == IF a > b THEN a ELSE b

\* Python's s[:n]
Take(s, n) == SubSeq(s, 1, Min(n, Len(s)))

SeqsUpTo(S, n) == UNION {[1..m -> S] : m \in 0..n}

\* Python's sub in s
Contains(s, sub) ==
    \E i \in 1..(Len(s) - Len(sub) + 1) : SubSeq(s, i, i + Len(sub) - 1) = sub

-----------------------------------------------------------------------------
(* get_cache_key *)

Alphabet == {"a", "|"}
Strings == SeqsUpTo(Alphabet, MaxStrLen)
Params == Strings \X Strings \X Strings

CharCode(c) == IF c = "a" THEN 1 ELSE 2

\* hashlib.md5(...).hexdigest(): a digest of the whole string; digest
\* collisions are left out, so distinct strings get distinct digests.
RECURSIVE Md5Hex(_)
Md5Hex(s) == IF s = <<>> THEN 0 ELSE CharCode(Head(s)) + 3 * Md5Hex(Tail(s))

\* combined = f"{project_description}|{tech_stack}|{target_audience}"
Combined(p) == p[1] \o <<"|">> \o p[2] \o <<"|">> \o p[3]

get_cache_key(p) == Md5Hex(Combined(p))

-----------------------------------------------------------------------------
(* Payloads and their JSON serialisation *)

Str(s) == [t |-> "str", s |-> s]

\* the analyses that are cached: JSON objects, one of them with a
\* _cache_info key of its own
Payloads ==
    { ("market_size" :> Str("v1")) @@ ("sources" :> Str("v1")),
      ("market_size" :> Str("v2")) @@ ("_cache_info" :> Str("v2")) }

\* json.dumps(market_data, indent=2): the members of the object, one after
\* the other, each a key and a value
json_dumps(d) ==
    LET ks == DOMAIN d
        order == CHOOSE f \in [1..Cardinality(ks) -> ks] : \A k \in ks : \E i \in DOMAIN f : f[i] = k
    IN  [i \in 1..Cardinality(ks) |-> <<order[i], d[order[i]]>>]

\* json.loads(document): an object with the members read; a key read twice
\* keeps its last value
json_loads(doc) ==
    LET ks == {doc[i][1] : i \in DOMAIN doc}
        lastIdx(k) == CHOOSE i \in DOMAIN doc : doc[i][1] = k /\ \A j \in DOMAIN doc : doc[j][1] = k => j <= i
    IN  [k \in ks |-> doc[lastIdx(k)][2]]

-----------------------------------------------------------------------------
(* The collection *)

\* collection.get(ids=[id]): the entry, if there is one
ColHas(col, id) == id \in DOMAIN col

\* collection.add: a new id is stored; an id already stored is left as it is
ColAdd(col, id, document, metadata) ==
    IF id \in DOMAIN col THEN col
    ELSE (id :> [document |-> document, metadata |-> metadata]) @@ col

\* collection.update: an id already stored gets the new document and
\* metadata; an id not stored is not created
ColUpdate(col, id, document, metadata) ==
    IF id \in DOMAIN col
    THEN [col EXCEPT ![id] = [document |-> document, metadata |-> metadata]]
    ELSE col

\* collection.delete(ids=...)
ColDelete(col, ids) == [id \in DOMAIN col \ ids |-> col[id]]

EmptyCol == [id \in {} |-> 0]

-----------------------------------------------------------------------------
(* The cache, one call at a time *)

\* the parameter tuples the calls are made with
ParamSet == { <<<<"|">>, <<>>, <<>>>>, <<<<"a">>, <<>>, <<>>>> }

PutMetadata(p, t1, t2, ttl) ==
    [ project_description |-> Take(p[1], 500),
      tech_stack |-> Take(p[2], 200),
      target_audience |-> p[3],
      cached_at |-> t1,
      expires_at |-> t2 + ttl ]

\* the collection after cache_market_analysis has looked for the id and
\* written the entry
PutWrite(col, id, document, metadata) ==
    IF ColHas(col, id)
    THEN ColUpdate(col, id, document, metadata)
    ELSE ColAdd(col, id, document, metadata)

\* cache_market_analysis(p, payload, ttl_days=ttl); datetime.now() is read
\* twice, d ticks apart
Put(p, payload, ttl, d) ==
    /\ clock + d <= MaxTime
    /\ LET t1 == clock
           t2 == clock + d
           id == get_cache_key(p)
       IN  /\ store' = PutWrite(store, id, json_dumps(payload), PutMetadata(p, t1, t2, ttl))
           /\ clock' = t2
           /\ last' = [op |-> "put", params |-> p, payload |-> payload, ttl |-> ttl,
                       t1 |-> t1, t2 |-> t2]

\* the expiry test, one tick late
IsExpired_Late(metadata, now) == now > metadata.expires_at + 1

\* datetime.now() > expires_at
IsExpired(metadata, now) == now > metadata.expires_at

Miss == [kind |-> "miss"]

CacheInfo(metadata) ==
    [t |-> "info", cached_at |-> metadata.cached_at,
     expires_at |-> metadata.expires_at, from_cache |-> TRUE]

\* the cache information merged under the payload instead of over it
GetData_InfoUnder(entry) ==
    LET market_data == json_loads(entry.document)
    IN  [kind |-> "hit",
         data |-> market_data @@ ("_cache_info" :> CacheInfo(entry.metadata))]

\* what get_cached_market_analysis returns for a live entry
GetData(entry) ==
    LET market_data == json_loads(entry.document)
    IN  [kind |-> "hit",
         data |-> ("_cache_info" :> CacheInfo(entry.metadata)) @@ market_data]

\* the call made right before this one, when it was a put
PrevPut == IF last.op = "put" THEN last ELSE [op |-> "other"]

\* get_cached_market_analysis(p)
Get(p) ==
    LET id == get_cache_key(p)
    IN  /\ IF ~ColHas(store, id)
           THEN /\ store' = store
                /\ last' = [op |-> "get", params |-> p, found |-> "absent",
                            now |-> clock, result |-> Miss, prev |-> PrevPut]
           ELSE IF IsExpired(store[id].metadata, clock)
           THEN /\ store' = ColDelete(store, {id})
                /\ last' = [op |-> "get", params |-> p, found |-> "expired",
                            now |-> clock, result |-> Miss, prev |-> PrevPut]
           ELSE /\ store' = store
                /\ last' = [op |-> "get", params |-> p, found |-> "live",
                            now |-> clock, result |-> GetData(store[id]), prev |-> PrevPut]
        /\ UNCHANGED clock

\* the scan taking an entry that expires right now for an expired one
ExpiredIds_Inclusive(col, now) == {id \in DOMAIN col : now >= col[id].metadata.expires_at}

\* the ids clear_expired_cache collects
ExpiredIds(col, now) == {id \in DOMAIN col : IsExpired(col[id].metadata, now)}

\* clear_expired_cache()
Sweep ==
    LET expired_ids == ExpiredIds(store, clock)
    IN  /\ store' = ColDelete(store, expired_ids)
        /\ last' = [op |-> "sweep", now |-> clock, count |-> Cardinality(expired_ids)]
        /\ UNCHANGED <<clock, keyq, notCache>>

\* time passes between two calls
Tick ==
    /\ clock < MaxTime
    /\ clock' = clock + 1
    /\ last' = [op |-> "none"]
    /\ UNCHANGED <<store, keyq, notCache>>

NoKeys == [stage |-> "idle"]
NoCall == [pc |-> "idle"]
NoProcs == <<>>

Init ==
    /\ store = EmptyCol
    /\ index = <<>>
    /\ ix = NoCall
    /\ gen = NoCall
    /\ sw = NoCall
    /\ ck = NoCall
    /\ ms = NoCall
    /\ pd = NoCall
    /\ clock = 0
    /\ last = [op |-> "none"]
    /\ keyq = NoKeys
    /\ procs = NoProcs
    /\ writes = <<>>
    /\ ct = NoCall
    /\ rc = NoCall

DoPut ==
    /\ \E p \in ParamSet, payload \in Payloads, ttl \in 1..MaxTtl, d \in 0..1 :
          Put(p, payload, ttl, d)
    /\ UNCHANGED <<keyq, notCache>>

DoGet ==
    /\ \E p \in ParamSet : Get(p)
    /\ UNCHANGED <<keyq, notCache>>

Next ==
    \/ DoPut
    \/ DoGet
    \/ Sweep
    \/ Tick

Spec == Init /\ [][Next]_vars

-----------------------------------------------------------------------------
(* A put with one parameter tuple, then a get with another, on an empty cache *)

KeyInit ==
    /\ store = EmptyCol
    /\ index = <<>>
    /\ ix = NoCall
    /\ gen = NoCall
    /\ sw = NoCall
    /\ ck = NoCall
    /\ ms = NoCall
    /\ pd = NoCall
    /\ clock = 0
    /\ last = [op |-> "none"]
    /\ keyq \in [stage : {"start"}, p : Params, q : Params]
    /\ procs = NoProcs
    /\ writes = <<>>
    /\ ct = NoCall
    /\ rc = NoCall

KeyPut ==
    /\ keyq.stage = "start"
    /\ \E payload \in Payloads, ttl \in 1..MaxTtl : Put(keyq.p, payload, ttl, 0)
    /\ keyq' = [keyq EXCEPT !.stage = "put"]
    /\ UNCHANGED notCache

KeyGet ==
    /\ keyq.stage = "put"
    /\ Get(keyq.q)
    /\ keyq' = [keyq EXCEPT !.stage = "got"]
    /\ UNCHANGED notCache

KeyNext ==
    \/ KeyPut
    \/ KeyGet

SpecKey == KeyInit /\ [][KeyNext]_vars

-----------------------------------------------------------------------------
(* Concurrent requests: generate_market_analysis run by several requests   *)
(* on the same parameters, each storage call and each clock read a step    *)

Procs == {1, 2}

ConcParams == <<<<"a">>, <<>>, <<>>>>
ConcId == get_cache_key(ConcParams)

\* the analysis request i computes
RequestPayload(i) == ("market_size" :> Str(IF i = 1 THEN "v1" ELSE "v2"))

Goto(i, pc) == procs' = [procs EXCEPT ![i].pc = pc]

\* get_cached_market_analysis: collection.get(ids=[cache_key])
ReqGetRead(i) ==
    /\ procs[i].pc = "start"
    /\ IF ColHas(store, ConcId)
       THEN procs' = [procs EXCEPT ![i].pc = "g_check", ![i].seen = store[ConcId].metadata]
       ELSE procs' = [procs EXCEPT ![i].pc = "compute", ![i].outcome = "miss"]
    /\ UNCHANGED <<store, clock, writes, sw, notConc>>

\* get_cached_market_analysis: the expiry test on the entry that was read
ReqGetCheck(i) ==
    /\ procs[i].pc = "g_check"
    /\ IF IsExpired(procs[i].seen, clock)
       THEN Goto(i, "g_delete")
       ELSE procs' = [procs EXCEPT ![i].pc = "done", ![i].outcome = "hit"]
    /\ UNCHANGED <<store, clock, writes, sw, notConc>>

\* get_cached_market_analysis: collection.delete(ids=[cache_key])
ReqGetDelete(i) ==
    /\ procs[i].pc = "g_delete"
    /\ store' = ColDelete(store, {ConcId})
    /\ procs' = [procs EXCEPT ![i].pc = "compute", ![i].outcome = "miss"]
    /\ UNCHANGED <<clock, writes, sw, notConc>>

\* the search and the inference call return and the output parses
ReqCompute(i) ==
    /\ procs[i].pc = "compute"
    /\ Goto(i, "p_now1")
    /\ UNCHANGED <<store, clock, writes, sw, notConc>>

\* cache_market_analysis: "cached_at": datetime.now()
ReqPutNow1(i) ==
    /\ procs[i].pc = "p_now1"
    /\ procs' = [procs EXCEPT ![i].pc = "p_now2", ![i].t1 = clock]
    /\ UNCHANGED <<store, clock, writes, sw, notConc>>

\* cache_market_analysis: "expires_at": datetime.now() + timedelta(days=ttl_days)
ReqPutNow2(i) ==
    /\ procs[i].pc = "p_now2"
    /\ procs' = [procs EXCEPT ![i].pc = "p_read", ![i].t2 = clock]
    /\ UNCHANGED <<store, clock, writes, sw, notConc>>

\* cache_market_analysis: existing = collection.get(ids=[cache_key])
ReqPutRead(i) ==
    /\ procs[i].pc = "p_read"
    /\ procs' = [procs EXCEPT ![i].pc = "p_write", ![i].existing = ColHas(store, ConcId)]
    /\ UNCHANGED <<store, clock, writes, sw, notConc>>

\* cache_market_analysis: collection.update or collection.add.  An add of
\* an id that another request has stored meanwhile stores nothing: the
\* collection either ignores it or raises, and the handler's second add
\* raises again.
ReqPutWrite(i) ==
    /\ procs[i].pc = "p_write"
    /\ LET document == json_dumps(RequestPayload(i))
           metadata == PutMetadata(ConcParams, procs[i].t1, procs[i].t2, procs[i].ttl)
       IN  IF procs[i].existing
           THEN /\ store' = ColUpdate(store, ConcId, document, metadata)
                /\ procs' = [procs EXCEPT ![i].pc = "done"]
           ELSE /\ store' = ColAdd(store, ConcId, document, metadata)
                /\ \E raised \in (IF ColHas(store, ConcId) THEN BOOLEAN ELSE {FALSE}) :
                      procs' = [procs EXCEPT ![i].pc = "done", ![i].raised = raised]
    /\ writes' = Append(writes, i)
    /\ UNCHANGED <<clock, sw, notConc>>

\* clear_expired_cache: all_entries = collection.get(include=["metadatas"]);
\* with no entry it returns 0
SwScan ==
    /\ sw.pc = "idle"
    /\ sw.runs < MaxSweeps
    /\ sw' = IF DOMAIN store = {}
             THEN [sw EXCEPT !.runs = @ + 1, !.count = 0]
             ELSE [sw EXCEPT !.pc = "check", !.runs = @ + 1,
                             !.all_entries = [id \in DOMAIN store |-> store[id].metadata]]
    /\ UNCHANGED <<store, clock, procs, writes, notConc>>

\* clear_expired_cache: now = datetime.now() and the loop that collects
\* the ids whose entry, as it was read, has expired
SwCheck ==
    /\ sw.pc = "check"
    /\ LET expired_ids == {id \in DOMAIN sw.all_entries :
                              IsExpired(sw.all_entries[id], clock)}
       IN  sw' = IF expired_ids = {}
                 THEN [sw EXCEPT !.pc = "idle", !.count = 0]
                 ELSE [sw EXCEPT !.pc = "delete", !.expired_ids = expired_ids]
    /\ UNCHANGED <<store, clock, procs, writes, notConc>>

\* clear_expired_cache: collection.delete(ids=expired_ids)
SwDelete ==
    /\ sw.pc = "delete"
    /\ store' = ColDelete(store, sw.expired_ids)
    /\ sw' = [sw EXCEPT !.pc = "idle", !.count = Cardinality(sw.expired_ids)]
    /\ UNCHANGED <<clock, procs, writes, notConc>>

\* time passes
ConcTick ==
    /\ clock < MaxTime
    /\ clock' = clock + 1
    /\ UNCHANGED <<store, procs, writes, sw, notConc>>

ConcInit ==
    /\ store = EmptyCol
    /\ index = <<>>
    /\ ix = NoCall
    /\ gen = NoCall
    /\ sw = [pc |-> "idle", runs |-> 0, all_entries |-> <<>>, expired_ids |-> {},
             count |-> 0]
    /\ ck = NoCall
    /\ ms = NoCall
    /\ pd = NoCall
    /\ clock = 0
    /\ last = [op |-> "none"]
    /\ keyq = NoKeys
    /\ procs \in [Procs -> [pc : {"start"}, ttl : 1..MaxTtl, outcome : {"none"},
                             seen : {<<>>}, existing : {FALSE}, t1 : {0}, t2 : {0},
                             raised : {FALSE}]]
    /\ writes = <<>>
    /\ ct = NoCall
    /\ rc = NoCall

ConcNext ==
    \/ \E i \in Procs : ReqGetRead(i)
    \/ \E i \in Procs : ReqGetCheck(i)
    \/ \E i \in Procs : ReqGetDelete(i)
    \/ \E i \in Procs : ReqCompute(i)
    \/ \E i \in Procs : ReqPutNow1(i)
    \/ \E i \in Procs : ReqPutNow2(i)
    \/ \E i \in Procs : ReqPutRead(i)
    \/ \E i \in Procs : ReqPutWrite(i)
    \/ SwScan
    \/ SwCheck
    \/ SwDelete
    \/ ConcTick

SpecConc == ConcInit /\ [][ConcNext]_vars

\* C6: when two requests both miss on the same key, both compute and both
\* call cache_market_analysis, the store ends with one entry for the key,
\* holding the payload of the request whose write finished last, and no
\* call has raised.
C6_LastWriterWins ==
    (\A i \in Procs : procs[i].pc = "done" /\ procs[i].outcome = "miss") =>
        /\ ColHas(store, ConcId)
        /\ json_loads(store[ConcId].document) = RequestPayload(writes[Len(writes)])
        /\ \A i \in Procs : ~procs[i].raised

-----------------------------------------------------------------------------
(* chunk_text *)

TextChars == {"a", " ", "\n"}
Texts == SeqsUpTo(TextChars, MaxTextLen)

IsSpace(c) == c \in {" ", "\n"}

\* a slice bound as Python reads it: negative counts from the end, and the
\* result is kept within 0..n
SliceIdx(i, n) == IF i < 0 THEN Max(i + n, 0) ELSE Min(i, n)

\* text[start:end], indices counted from 0
Slice(text, start, end) ==
    LET s == SliceIdx(start, Len(text))
        e == SliceIdx(end, Len(text))
    IN  IF s >= e THEN <<>> ELSE SubSeq(text, s + 1, e)

\* text.rfind(c, start, end): the highest index of c in text[start:end], or -1
RFind(text, c, start, end) ==
    LET s == SliceIdx(start, Len(text))
        e == SliceIdx(end, Len(text))
        at == {i \in s..(e - 1) : text[i + 1] = c}
    IN  IF at = {} THEN -1 ELSE CHOOSE i \in at : \A j \in at : j <= i

\* s.strip()
RECURSIVE LStrip(_)
LStrip(s) == IF s # <<>> /\ IsSpace(Head(s)) THEN LStrip(Tail(s)) ELSE s

RECURSIVE RStrip(_)
RStrip(s) == IF s # <<>> /\ IsSpace(s[Len(s)]) THEN RStrip(SubSeq(s, 1, Len(s) - 1)) ELSE s

Strip(s) == RStrip(LStrip(s))

\* the cut moved forward to the first boundary found after the window
CutEnd_Forward(text, chunk_size, start) ==
    LET end == start + chunk_size
        space_pos == RFind(text, " ", end, end + chunk_size)
    IN  IF end < Len(text) /\ space_pos >= 0 THEN space_pos + 1 ELSE end

\* where one pass of the loop cuts the window that starts at start
CutEnd(text, chunk_size, start) ==
    LET end == start + chunk_size
        newline_pos == RFind(text, "\n", start, end)
        space_pos == RFind(text, " ", start, end)
    IN  IF end < Len(text)
        THEN IF newline_pos > start + chunk_size \div 2 THEN newline_pos + 1
             ELSE IF space_pos > start + chunk_size \div 2 THEN space_pos + 1
             ELSE end
        ELSE end

\* start after the pass, one past the cut
NextStart_Skip(text, overlap, end) == end + 1

\* start after the pass
NextStart(text, overlap, end) == IF end < Len(text) THEN end - overlap ELSE end

\* the call: a text no longer than chunk_size is returned whole
ChunkCall ==
    /\ ct.pc = "call"
    /\ ct' = IF Len(ct.text) <= ct.chunk_size
             THEN [ct EXCEPT !.pc = "return", !.chunks = <<ct.text>>]
             ELSE [ct EXCEPT !.pc = "loop", !.chunks = <<>>, !.start = 0]
    /\ UNCHANGED <<cacheVars, concVars, svcVars, rc, idxVars, gen>>

\* one pass of the while loop; windows keeps the <<start, end>> of every
\* chunk cut so far
ChunkIter ==
    /\ ct.pc = "loop"
    /\ ct.start < Len(ct.text)
    /\ Len(ct.chunks) < MaxChunks
    /\ LET end == CutEnd(ct.text, ct.chunk_size, ct.start)
       IN  ct' = [ct EXCEPT !.chunks = Append(@, Strip(Slice(ct.text, ct.start, end))),
                            !.end = end,
                            !.windows = Append(@, <<ct.start, end>>),
                            !.start = NextStart(ct.text, ct.overlap, end)]
    /\ UNCHANGED <<cacheVars, concVars, svcVars, rc, idxVars, gen>>

\* the loop's test fails and the chunks are returned
ChunkReturn ==
    /\ ct.pc = "loop"
    /\ ct.start >= Len(ct.text)
    /\ ct' = [ct EXCEPT !.pc = "return"]
    /\ UNCHANGED <<cacheVars, concVars, svcVars, rc, idxVars, gen>>

ChunkInit ==
    /\ store = EmptyCol
    /\ index = <<>>
    /\ ix = NoCall
    /\ gen = NoCall
    /\ sw = NoCall
    /\ ck = NoCall
    /\ ms = NoCall
    /\ pd = NoCall
    /\ clock = 0
    /\ last = [op |-> "none"]
    /\ keyq = NoKeys
    /\ procs = NoProcs
    /\ writes = <<>>
    /\ ct \in [pc : {"call"}, text : Texts, chunk_size : 1..MaxChunkSize,
                overlap : 0..MaxOverlap, start : {0}, end : {0}, chunks : {<<>>},
                windows : {<<>>}]
    /\ rc = NoCall

ChunkNext ==
    \/ ChunkCall
    \/ ChunkIter
    \/ ChunkReturn

SpecChunk == ChunkInit /\ [][ChunkNext]_vars

-----------------------------------------------------------------------------
(* retrieve_context *)

RECURSIVE Rep(_, _)
Rep(c, n) == IF n = 0 THEN "" ELSE c \o Rep(c, n - 1)

DocTexts == {Rep("a", n) : n \in 0..MaxDocLen}

\* the metadata of a doc chunk, of a commit chunk, and of a chunk without a type
Metadatas ==
    { [type |-> "doc", path |-> "R"],
      [type |-> "commit", sha |-> "0123456789", message |-> "m"],
      [file |-> "x"] }

\* one result of collection.query: a document and its metadata (the
\* distance is passed along and not read)
ResultItems == [doc : DocTexts, metadata : Metadatas]
ResultLists == SeqsUpTo(ResultItems, MaxResults)

\* metadata.get(key, default)
MetaGet(metadata, key, default) ==
    IF key \in DOMAIN metadata THEN metadata[key] ELSE default

\* the provenance header of a result
Header(metadata) ==
    LET doc_type == MetaGet(metadata, "type", "unknown")
    IN  IF doc_type = "doc"
        THEN "[Documentation: " \o MetaGet(metadata, "path", "unknown") \o "]"
        ELSE IF doc_type = "commit"
        THEN "[Commit " \o Take(MetaGet(metadata, "sha", "unknown"), 8) \o ": "
                 \o MetaGet(metadata, "message", "") \o "]"
        ELSE "[" \o doc_type \o "]"

\* f"{header}\n{doc}\n"
Block(item) == Header(item.metadata) \o "\n" \o item.doc \o "\n"

Delimiter == "\n---\n\n"

\* sep.join(parts)
RECURSIVE Join(_, _)
Join(parts, sep) ==
    IF parts = <<>> THEN ""
    ELSE IF Len(parts) = 1 THEN parts[1]
    ELSE parts[1] \o sep \o Join(Tail(parts), sep)

NoResultsSentinel == "No relevant context found in the repository."

\* the size-limit case answered with the sentinel of the empty index
SizeLimitSentinel_Same == NoResultsSentinel

SizeLimitSentinel == "No relevant context found within size limits."

\* the test that ends the loop
OverBudget(total_chars, doc, max_context_chars) == total_chars + Len(doc) > max_context_chars

\* what the loop adds to total_chars for a block
Counted(item) == Len(item.doc) + Len(Header(item.metadata)) + 2

\* the string returned after the loop, the blocks joined last to first
Assemble_Reversed(context_parts) ==
    IF context_parts = <<>> THEN SizeLimitSentinel
    ELSE Join([j \in 1..Len(context_parts) |->
                  context_parts[Len(context_parts) + 1 - j]], Delimiter)
\* the string returned after the loop
Assemble(context_parts) ==
    IF context_parts = <<>> THEN SizeLimitSentinel ELSE Join(context_parts, Delimiter)

\* not results["documents"] or not results["documents"][0]
NoDocuments_Never(results) == FALSE

NoDocuments(results) == results = <<>>

\* the query has returned
RetrieveQuery ==
    /\ rc.pc = "call"
    /\ rc' = IF NoDocuments(rc.results)
             THEN [rc EXCEPT !.pc = "done", !.out = NoResultsSentinel]
             ELSE [rc EXCEPT !.pc = "loop"]
    /\ UNCHANGED <<cacheVars, concVars, svcVars, ct, idxVars, gen>>

\* a pass of the loop that adds the result's block
RetrieveInclude ==
    /\ rc.pc = "loop"
    /\ rc.i <= Len(rc.results)
    /\ ~OverBudget(rc.total_chars, rc.results[rc.i].doc, rc.max_context_chars)
    /\ rc' = [rc EXCEPT !.context_parts = Append(@, Block(rc.results[rc.i])),
                        !.total_chars = @ + Counted(rc.results[rc.i]),
                        !.i = @ + 1]
    /\ UNCHANGED <<cacheVars, concVars, svcVars, ct, idxVars, gen>>

\* the loop ends, at the last result or at the first that is over budget,
\* and the context is returned
RetrieveReturn ==
    /\ rc.pc = "loop"
    /\ \/ rc.i > Len(rc.results)
       \/ /\ rc.i <= Len(rc.results)
          /\ OverBudget(rc.total_chars, rc.results[rc.i].doc, rc.max_context_chars)
    /\ rc' = [rc EXCEPT !.pc = "done", !.out = Assemble(rc.context_parts)]
    /\ UNCHANGED <<cacheVars, concVars, svcVars, ct, idxVars, gen>>

RetrieveInit ==
    /\ store = EmptyCol
    /\ index = <<>>
    /\ ix = NoCall
    /\ gen = NoCall
    /\ sw = NoCall
    /\ ck = NoCall
    /\ ms = NoCall
    /\ pd = NoCall
    /\ clock = 0
    /\ last = [op |-> "none"]
    /\ keyq = NoKeys
    /\ procs = NoProcs
    /\ writes = <<>>
    /\ ct = NoCall
    /\ rc \in [pc : {"call"}, results : ResultLists, max_context_chars : 0..MaxBudget,
                i : {1}, context_parts : {<<>>}, total_chars : {0}, out : {""}]

RetrieveNext ==
    \/ RetrieveQuery
    \/ RetrieveInclude
    \/ RetrieveReturn

SpecRetrieve == RetrieveInit /\ [][RetrieveNext]_vars

-----------------------------------------------------------------------------
(* chunk_documentation, chunk_commits and index_repo *)

\* the defaults of chunk_documentation and chunk_commits, and the chunk_size
\* and overlap chunk_documentation gives to chunk_text
DocChunkSize == 1500
DocOverlap == 200
MaxChunksPerDoc == 5
MaxFilesPerCommit == 5
MaxDiffChars == 1000

\* the number of results search_market_size fetches the pages of
FetchLimit == 3

\* the passes of chunk_text's loop from start on
RECURSIVE ChunkLoop(_, _, _, _, _)
ChunkLoop(text, chunk_size, overlap, start, chunks) ==
    IF start >= Len(text) THEN chunks
    ELSE LET end == CutEnd(text, chunk_size, start)
         IN  ChunkLoop(text, chunk_size, overlap, NextStart(text, overlap, end),
                       Append(chunks, Strip(Slice(text, start, end))))

\* chunk_text(text, chunk_size, overlap), for the arguments it returns for
chunk_text(text, chunk_size, overlap) ==
    IF Len(text) <= chunk_size THEN <<text>>
    ELSE ChunkLoop(text, chunk_size, overlap, 0, <<>>)

\* str(n) for n >= 0
RECURSIVE ToStr(_)
ToStr(n) ==
    LET digits == <<"0", "1", "2", "3", "4", "5", "6", "7", "8", "9">>
    IN  IF n < 10 THEN <<digits[n + 1]>>
        ELSE ToStr(n \div 10) \o <<digits[(n % 10) + 1]>>

\* None, which no string equals
None == <<"None">>

\* f"doc:{path}:{idx}"
DocId(path, idx) == <<"d", "o", "c", ":">> \o path \o <<":">> \o ToStr(idx)

\* f"commit:{sha}:{idx}"
CommitId(sha, idx) == <<"c", "o", "m", "m", "i", "t", ":">> \o sha \o <<":">> \o ToStr(idx)

\* the chunks of one document with total_chunks the number chunk_text cut
DocChunks_Uncapped(doc, max_chunks_per_doc) ==
    LET path == doc.path
        content == doc.content
        chunks == chunk_text(content, DocChunkSize, DocOverlap)
        kept == Take(chunks, max_chunks_per_doc)
    IN  IF Strip(content) = <<>> THEN <<>>
        ELSE [i \in 1..Len(kept) |->
                 [id |-> DocId(path, i - 1),
                  text |-> kept[i],
                  metadata |-> [type |-> "doc", path |-> path, chunk_idx |-> i - 1,
                                total_chunks |-> Len(chunks)]]]

\* the chunks of one document: none for a blank one, else the first
\* max_chunks_per_doc of chunk_text's
DocChunks(doc, max_chunks_per_doc) ==
    LET path == doc.path
        content == doc.content
        chunks == chunk_text(content, DocChunkSize, DocOverlap)
        kept == Take(chunks, max_chunks_per_doc)
    IN  IF Strip(content) = <<>> THEN <<>>
        ELSE [i \in 1..Len(kept) |->
                 [id |-> DocId(path, i - 1),
                  text |-> kept[i],
                  metadata |-> [type |-> "doc", path |-> path, chunk_idx |-> i - 1,
                                total_chunks |-> Min(Len(chunks), max_chunks_per_doc)]]]

RECURSIVE chunk_documentation(_, _)
chunk_documentation(docs, max_chunks_per_doc) ==
    IF docs = <<>> THEN <<>>
    ELSE DocChunks(Head(docs), max_chunks_per_doc)
             \o chunk_documentation(Tail(docs), max_chunks_per_doc)

\* s.find(sub): the lowest index where sub starts in s, or -1
Find(s, sub) ==
    LET at == {i \in 0..(Len(s) - Len(sub)) : SubSeq(s, i + 1, i + Len(sub)) = sub}
    IN  IF at = {} THEN -1 ELSE CHOOSE i \in at : \A j \in at : i <= j

\* the part of the diff put in the chunk of one file
DiffSnippet(diff, file_path, max_diff_chars) ==
    IF diff = <<>> THEN <<>>
    ELSE IF Find(diff, file_path) >= 0
    THEN Slice(diff, Find(diff, file_path), Find(diff, file_path) + max_diff_chars)
    ELSE Slice(diff, 0, max_diff_chars)

\* f"Commit: {message}\nAuthor: {author}\nDate: {date}\n\nDiff:\n{diff[:max_diff_chars]}"
CommitText(message, author, date, diff_head) ==
    <<"C", "o", "m", "m", "i", "t", ":", " ">> \o message
        \o <<"\n", "A", "u", "t", "h", "o", "r", ":", " ">> \o author
        \o <<"\n", "D", "a", "t", "e", ":", " ">> \o date
        \o <<"\n", "\n", "D", "i", "f", "f", ":", "\n">> \o diff_head

\* f"Commit: {message}\nFile: {file_path}\nAuthor: {author}\nDate: {date}\n\nDiff:\n{diff_snippet}"
CommitFileText(message, file_path, author, date, diff_snippet) ==
    <<"C", "o", "m", "m", "i", "t", ":", " ">> \o message
        \o <<"\n", "F", "i", "l", "e", ":", " ">> \o file_path
        \o <<"\n", "A", "u", "t", "h", "o", "r", ":", " ">> \o author
        \o <<"\n", "D", "a", "t", "e", ":", " ">> \o date
        \o <<"\n", "\n", "D", "i", "f", "f", ":", "\n">> \o diff_snippet

CommitMetadata(sha, message, author, date, file) ==
    [type |-> "commit", sha |-> sha, message |-> message, author |-> author,
     date |-> date, file |-> file]

\* the chunks of one commit, one for every file it lists
CommitChunks_AllFiles(commit, max_files_per_commit, max_diff_chars) ==
    LET sha == commit.hash
        message == commit.message
        author == MetaGet(commit, "author", <<"U", "n", "k", "n", "o", "w", "n">>)
        date == MetaGet(commit, "date", <<>>)
        files == MetaGet(commit, "files", <<>>)
        diff == MetaGet(commit, "diff", <<>>)
    IN  IF files = <<>> /\ diff # <<>>
        THEN << [id |-> CommitId(sha, 0),
                 text |-> CommitText(message, author, date, Slice(diff, 0, max_diff_chars)),
                 metadata |-> CommitMetadata(sha, message, author, date, None)] >>
        ELSE [i \in 1..Len(files) |->
                 [id |-> CommitId(sha, i - 1),
                  text |-> CommitFileText(message, files[i], author, date,
                                          DiffSnippet(diff, files[i], max_diff_chars)),
                  metadata |-> CommitMetadata(sha, message, author, date, files[i])]]

\* the chunks of one commit: one for a commit with a diff and no files, else
\* one for each of its first max_files_per_commit files
CommitChunks(commit, max_files_per_commit, max_diff_chars) ==
    LET sha == commit.hash
        message == commit.message
        author == MetaGet(commit, "author", <<"U", "n", "k", "n", "o", "w", "n">>)
        date == MetaGet(commit, "date", <<>>)
        files == MetaGet(commit, "files", <<>>)
        diff == MetaGet(commit, "diff", <<>>)
        kept == Take(files, max_files_per_commit)
    IN  IF files = <<>> /\ diff # <<>>
        THEN << [id |-> CommitId(sha, 0),
                 text |-> CommitText(message, author, date, Slice(diff, 0, max_diff_chars)),
                 metadata |-> CommitMetadata(sha, message, author, date, None)] >>
        ELSE [i \in 1..Len(kept) |->
                 [id |-> CommitId(sha, i - 1),
                  text |-> CommitFileText(message, kept[i], author, date,
                                          DiffSnippet(diff, kept[i], max_diff_chars)),
                  metadata |-> CommitMetadata(sha, message, author, date, kept[i])]]

RECURSIVE chunk_commits(_, _, _)
chunk_commits(commits, max_files_per_commit, max_diff_chars) ==
    IF commits = <<>> THEN <<>>
    ELSE CommitChunks(Head(commits), max_files_per_commit, max_diff_chars)
             \o chunk_commits(Tail(commits), max_files_per_commit, max_diff_chars)

\* the repository snapshots index_repo is given: documents with distinct
\* paths (one of them blank, one long enough for several chunks, two that
\* differ in content only) and commits with distinct hashes (with files,
\* and with a diff and no files)
LongDoc == [i \in 1..LongDocLen |-> "a"]

DocLists ==
    { <<>>,
      << [path |-> <<"R">>, content |-> <<"a">>] >>,
      << [path |-> <<"R">>, content |-> <<"a", "a">>] >>,
      << [path |-> <<"R">>, content |-> <<" ">>] >>,
      << [path |-> <<"R">>, content |-> LongDoc] >> }

CommitLists ==
    { <<>>,
      << [hash |-> <<"s">>, message |-> <<"m">>, files |-> << <<"f">> >>,
          diff |-> <<"f", "+">>] >>,
      << [hash |-> <<"s">>, message |-> <<"m">>, author |-> <<"A">>, diff |-> <<"+">>] >> }

Snapshots == [documentation : DocLists, commits : CommitLists]

\* the snapshot of the end-to-end scenario: one README of LongDocLen
\* characters and one commit with a message of MessageLen characters and an
\* empty diff.  get_repo asks for the diff of a commit only when the commit
\* touches a source file, so that such a commit comes with no files; the
\* second snapshot has it with a file all the same.
Readme ==
    [path |-> <<"R", "E", "A", "D", "M", "E", ".", "m", "d">>, content |-> LongDoc]

ScenarioMessage == [i \in 1..MessageLen |-> "m"]

ScenarioCommit(files) ==
    [hash |-> <<"0", "1", "2", "3", "4", "5", "6", "7", "8", "9">>,
     author |-> <<"A">>, date |-> <<"D">>, message |-> ScenarioMessage,
     diff |-> <<>>, files |-> files]

Scenario(files) == [documentation |-> <<Readme>>, commits |-> <<ScenarioCommit(files)>>]

\* the snapshots index_repo is given between the calls of retrieve_context
PipeSnapshots ==
    { [documentation |-> <<>>, commits |-> <<>>],
      [documentation |-> << [path |-> <<"R">>, content |-> <<"a">>] >>,
       commits |-> << [hash |-> <<"s">>, message |-> <<"m">>, files |-> << <<"f">> >>,
                       diff |-> <<"f", "+">>] >>],
      Scenario(<<>>),
      Scenario(<< <<"f">> >>) }

\* all_chunks of index_repo: the doc chunks, then the commit chunks
all_chunks(repo_data) ==
    chunk_documentation(repo_data.documentation, MaxChunksPerDoc)
        \o chunk_commits(repo_data.commits, MaxFilesPerCommit, MaxDiffChars)

\* all_chunks tabulated for the snapshots in S
RECURSIVE ChunkTable(_)
ChunkTable(S) ==
    IF S = {} THEN <<>>
    ELSE LET repo_data == CHOOSE x \in S : TRUE
         IN  (repo_data :> all_chunks(repo_data)) @@ ChunkTable(S \ {repo_data})

AllChunks == ChunkTable(Snapshots \cup PipeSnapshots)

StoredIds(col) == {col[k].id : k \in DOMAIN col}

ChunkIds(chunks) == {chunks[k].id : k \in DOMAIN chunks}

\* the entry collection.add stores for a chunk
Entry(chunk) == [id |-> chunk.id, document |-> chunk.text, metadata |-> chunk.metadata]

\* collection.add storing every chunk given, whether its id is stored or not
VecAdd_Append(col, chunks) == col \o [k \in DOMAIN chunks |-> Entry(chunks[k])]

\* collection.add keeping the chunks given and nothing else
VecAdd_Fresh(col, chunks) == [k \in DOMAIN chunks |-> Entry(chunks[k])]

\* collection.add(ids, documents, metadatas): the chunks whose id is not
\* stored yet are stored, the others are left out
VecAdd(col, chunks) ==
    col \o [k \in 1..Len(SelectSeq(chunks, LAMBDA c : c.id \notin StoredIds(col))) |->
               Entry(SelectSeq(chunks, LAMBDA c : c.id \notin StoredIds(col))[k])]

\* index_repo(repo_data, repo_url) on the repository's collection.  An add
\* that names an id twice raises; an add of an id already stored either
\* leaves the stored entry as it is or (reject) raises, by the version of
\* the store; an add that raises stores nothing.
IndexRepo(repo_data, reject) ==
    LET chunks == AllChunks[repo_data]
        existing == ChunkIds(chunks) \cap StoredIds(index)
        twice == Cardinality(ChunkIds(chunks)) < Len(chunks)
        raised == chunks # <<>> /\ (twice \/ (reject /\ existing # {}))
    IN  /\ ix.runs < MaxRuns
        /\ reject => existing # {}
        /\ index' = IF chunks = <<>> \/ raised THEN index
                    ELSE VecAdd(index, chunks)
        /\ ix' = [pc |-> "done", runs |-> ix.runs + 1, snapshot |-> repo_data,
                  raised |-> raised, before |-> index,
                  prev |-> [snapshot |-> ix.snapshot, raised |-> ix.raised,
                            called |-> ix.runs > 0]]
        /\ UNCHANGED <<cacheVars, concVars, svcVars, ct, rc, gen>>

IndexInit ==
    /\ store = EmptyCol
    /\ index = <<>>
    /\ ix = [pc |-> "idle", runs |-> 0,
             snapshot |-> [documentation |-> <<>>, commits |-> <<>>],
             raised |-> FALSE, before |-> <<>>,
             prev |-> [snapshot |-> [documentation |-> <<>>, commits |-> <<>>],
                       raised |-> FALSE, called |-> FALSE]]
    /\ gen = NoCall
    /\ sw = NoCall
    /\ ck = NoCall
    /\ ms = NoCall
    /\ pd = NoCall
    /\ clock = 0
    /\ last = [op |-> "none"]
    /\ keyq = NoKeys
    /\ procs = NoProcs
    /\ writes = <<>>
    /\ ct = NoCall
    /\ rc = NoCall

IndexNext == \E repo_data \in Snapshots, reject \in BOOLEAN : IndexRepo(repo_data, reject)

SpecIndex == IndexInit /\ [][IndexNext]_vars

-----------------------------------------------------------------------------
(* index_repo and retrieve_context on the repository's collection, one     *)
(* call at a time                                                          *)

\* the string a sequence of characters stands for
RECURSIVE AsString(_)
AsString(s) ==
    IF s = <<>> THEN ""
    ELSE IF Len(s) = 1 THEN s[1]
    ELSE AsString(SubSeq(s, 1, Len(s) \div 2))
             \o AsString(SubSeq(s, Len(s) \div 2 + 1, Len(s)))

\* the query texts: one close to the doc chunks, one close to the commit
\* chunks
Queries == {"doc", "commit"}

\* the cosine distance between the embeddings of the query text and of a
\* stored chunk
Distance(query, entry) == IF entry.metadata.type = query THEN 0 ELSE 1

\* the stored entries ascending by distance, the nearer first
Ranked(col, query) ==
    SelectSeq(col, LAMBDA e : Distance(query, e) = 0)
        \o SelectSeq(col, LAMBDA e : Distance(query, e) # 0)

\* the document and the metadata the query returns for a stored entry
ResultOf(entry) ==
    [doc |-> AsString(entry.document),
     metadata |-> [key \in DOMAIN entry.metadata |->
                      IF key \in {"path", "sha", "message", "author", "date", "file"}
                      THEN AsString(entry.metadata[key])
                      ELSE entry.metadata[key]]]

\* ResultOf tabulated for the entries in E
RECURSIVE ResultTable(_)
ResultTable(E) ==
    IF E = {} THEN <<>>
    ELSE LET entry == CHOOSE x \in E : TRUE
         IN  (entry :> ResultOf(entry)) @@ ResultTable(E \ {entry})

\* the entries index_repo stores for the snapshots it is given
PipeEntries ==
    UNION {{Entry(AllChunks[s][n]) : n \in DOMAIN AllChunks[s]} : s \in PipeSnapshots}

AllResults == ResultTable(PipeEntries)

\* collection.query(query_texts=[query], n_results=k): the k nearest
\* entries, all of them when fewer are stored, none on an empty collection
QueryResults(col, query, k) ==
    [j \in 1..Min(k, Len(col)) |-> AllResults[Ranked(col, query)[j]]]

\* retrieve_context(query, repo_url, k, max_context_chars) is called:
\* get_or_create_collection gives the repository's collection, an empty
\* one when index_repo has not created it, and the query is run
PipeRetrieve(query, k, max_context_chars) ==
    /\ rc.pc \in {"idle", "done"}
    /\ rc' = [pc |-> "call", results |-> QueryResults(index, query, k),
              max_context_chars |-> max_context_chars, i |-> 1,
              context_parts |-> <<>>, total_chars |-> 0, out |-> "",
              query |-> query, k |-> k, col |-> index]
    /\ UNCHANGED <<cacheVars, concVars, svcVars, ct, idxVars, gen>>

\* index_repo is called between two calls of retrieve_context
PipeIndex(repo_data, reject) ==
    /\ rc.pc \in {"idle", "done"}
    /\ IndexRepo(repo_data, reject)

PipeInit ==
    /\ store = EmptyCol
    /\ index = <<>>
    /\ ix = [pc |-> "idle", runs |-> 0,
             snapshot |-> [documentation |-> <<>>, commits |-> <<>>],
             raised |-> FALSE, before |-> <<>>,
             prev |-> [snapshot |-> [documentation |-> <<>>, commits |-> <<>>],
                       raised |-> FALSE, called |-> FALSE]]
    /\ gen = NoCall
    /\ sw = NoCall
    /\ ck = NoCall
    /\ ms = NoCall
    /\ pd = NoCall
    /\ clock = 0
    /\ last = [op |-> "none"]
    /\ keyq = NoKeys
    /\ procs = NoProcs
    /\ writes = <<>>
    /\ ct = NoCall
    /\ rc = [pc |-> "idle", results |-> <<>>, max_context_chars |-> 0, i |-> 1,
             context_parts |-> <<>>, total_chars |-> 0, out |-> "",
             query |-> "doc", k |-> 0, col |-> <<>>]

PipeNext ==
    \/ \E repo_data \in PipeSnapshots, reject \in BOOLEAN : PipeIndex(repo_data, reject)
    \/ \E query \in Queries, k \in {1, QueryK}, max_context_chars \in {MaxBudget, QueryBudget} :
           PipeRetrieve(query, k, max_context_chars)
    \/ RetrieveQuery
    \/ RetrieveInclude
    \/ RetrieveReturn

SpecPipe == PipeInit /\ [][PipeNext]_vars

-----------------------------------------------------------------------------
(* chunk_documentation and chunk_commits, one call at a time *)

HugeDoc == [i \in 1..HugeDocLen |-> "a"]
LongDiff == [i \in 1..LongDiffLen |-> "+"]

\* the documents given to chunk_documentation: empty, blank, short, of
\* several chunks and of more chunks than are kept
DocInputs ==
    [path : {<<"R">>, <<"S">>},
     content : {<<>>, <<" ">>, <<"\n", " ">>, <<"a">>, LongDoc, HugeDoc}]

\* the commits given to chunk_commits: without files, with a few and with
\* more than are kept; without a diff, with a short and with a long one
SixFiles == << <<"f">>, <<"g">>, <<"h">>, <<"i">>, <<"j">>, <<"k">> >>

CommitInputs ==
    [hash : {<<"s">>, <<"t">>}, message : {<<"m">>},
     files : {<<>>, << <<"f">> >>, << <<"g">>, <<"f">> >>, SixFiles},
     diff : {<<>>, <<"f", "+">>, LongDiff}]

\* the lists given: none, one, and one followed by another
DocInputLists ==
    {<<>>} \cup {<<d>> : d \in DocInputs}
        \cup {<<d, e>> : d \in DocInputs,
                         e \in {[path |-> <<"S">>, content |-> <<"a">>],
                                [path |-> <<"S">>, content |-> <<" ">>],
                                [path |-> <<"S">>, content |-> HugeDoc]}}

CommitInputLists ==
    {<<>>} \cup {<<c>> : c \in CommitInputs}
        \cup {<<c, e>> : c \in CommitInputs,
                         e \in {[hash |-> <<"t">>, message |-> <<"m">>, files |-> SixFiles,
                                 diff |-> <<"f", "+">>],
                                [hash |-> <<"t">>, message |-> <<"m">>, files |-> <<>>,
                                 diff |-> <<"f", "+">>]}}

\* chunk_documentation(docs, max_chunks_per_doc) is called and returns
CallChunkDocumentation ==
    /\ ck.pc = "call"
    /\ ck.fn = "chunk_documentation"
    /\ ck' = [ck EXCEPT !.pc = "done",
                        !.out = chunk_documentation(ck.docs, ck.max_chunks_per_doc)]
    /\ UNCHANGED <<cacheVars, concVars, ct, rc, idxVars, gen, ms, pd>>

\* chunk_commits(commits, max_files_per_commit, max_diff_chars) is called
\* and returns
CallChunkCommits ==
    /\ ck.pc = "call"
    /\ ck.fn = "chunk_commits"
    /\ ck' = [ck EXCEPT !.pc = "done",
                        !.out = chunk_commits(ck.commits, ck.max_files_per_commit,
                                              ck.max_diff_chars)]
    /\ UNCHANGED <<cacheVars, concVars, ct, rc, idxVars, gen, ms, pd>>

ChunkersInit ==
    /\ store = EmptyCol
    /\ index = <<>>
    /\ ix = NoCall
    /\ gen = NoCall
    /\ sw = NoCall
    /\ ms = NoCall
    /\ pd = NoCall
    /\ clock = 0
    /\ last = [op |-> "none"]
    /\ keyq = NoKeys
    /\ procs = NoProcs
    /\ writes = <<>>
    /\ ct = NoCall
    /\ rc = NoCall
    /\ \/ ck \in [pc : {"call"}, fn : {"chunk_documentation"},
                  docs : DocInputLists, commits : {<<>>},
                  max_chunks_per_doc : {2, MaxChunksPerDoc},
                  max_files_per_commit : {MaxFilesPerCommit},
                  max_diff_chars : {MaxDiffChars}, out : {<<>>}]
       \/ ck \in [pc : {"call"}, fn : {"chunk_commits"},
                  docs : {<<>>}, commits : CommitInputLists,
                  max_chunks_per_doc : {MaxChunksPerDoc},
                  max_files_per_commit : {1, MaxFilesPerCommit},
                  max_diff_chars : {1, MaxDiffChars}, out : {<<>>}]

ChunkersNext ==
    \/ CallChunkDocumentation
    \/ CallChunkCommits

SpecChunkers == ChunkersInit /\ [][ChunkersNext]_vars

-----------------------------------------------------------------------------
(* search_market_size: the search, the page fetches run together, and the  *)
(* payload made of what they return                                        *)

\* the snippet of a search result and the text of a fetched page
Snippets == {"", "$1B"}
PageText == "9% CAGR"

\* the items of the search response, in its order: the title tells them
\* apart, auth says the link is on a site that asks for a login
ItemLists ==
    UNION {{[j \in 1..n |-> [title |-> j, auth |-> f[j].auth, snippet |-> f[j].snippet]] :
               f \in [1..n -> [auth : BOOLEAN, snippet : Snippets]]} : n \in 0..MaxItems}

\* how the call goes up to the search response: no API key, no search
\* engine id, the request raises, a status other than 200, or a response
\* with items
Responses == {"no_key", "no_engine", "raised", "403", "500", "ok"}

\* how a page fetch ends: with the text of the page, with an empty string,
\* with None, or raising
FetchOutcomes ==
    { [kind |-> "page", text |-> PageText], [kind |-> "empty", text |-> ""],
      [kind |-> "none", text |-> ""], [kind |-> "raised", text |-> ""] }

Running == [kind |-> "running", text |-> ""]

\* the items not on a login site, or all of them when every one is
Filtered(items) ==
    IF SelectSeq(items, LAMBDA item : ~item.auth) = <<>> THEN items
    ELSE SelectSeq(items, LAMBDA item : ~item.auth)

\* the payloads returned without a fetch
Placeholder(value) ==
    [value |-> value, growth_rate |-> "N/A", forecast |-> "N/A", sources |-> <<>>]

EarlyPayload(response) ==
    IF response = "no_key"
    THEN Placeholder("Data not available (Google API key not configured)")
    ELSE IF response = "no_engine"
    THEN [note |-> "To enable market size search, set up Google Custom Search Engine"]
             @@ Placeholder("Configure GOOGLE_SEARCH_ENGINE_ID for market data")
    ELSE IF response = "raised" THEN Placeholder("Search error: " \o "timed out")
    ELSE IF response = "403"
    THEN [error |-> "Enable Custom Search API in Google Cloud Console",
          setup_url |-> "https://console.cloud.google.com/apis/library/customsearch.googleapis.com"]
             @@ Placeholder("Google Custom Search API not enabled")
    ELSE IF response = "500"
    THEN [error |-> ""] @@ Placeholder("Search failed (status " \o response \o ")")
    ELSE Placeholder("No market data found")

\* _extract_market_value, _extract_growth_rate and _extract_forecast on
\* texts made of the snippets and the page text above: the first pattern
\* of the first finds "$1B", the first pattern of the second "9% CAGR",
\* and no pattern of the third finds a year
ExtractValue(text) ==
    IF Contains(text, "$1B") THEN "$1B"
    ELSE "See search results for market size estimates"

ExtractGrowth(text) ==
    IF Contains(text, "9% CAGR") THEN "9% CAGR"
    ELSE "See search results for growth rate estimates"

ExtractForecast(text) == "See search results for forecast estimates"

\* what is kept of a fetch: nothing of one that failed
UsedContent_Dropped(result, snippet) == IF result.kind = "page" THEN result.text ELSE ""

\* what the loop over the results appends to all_content for a fetch: the
\* page when there is one, the snippet when the fetch raised or returned
\* nothing
UsedContent(result, snippet) == IF result.kind = "page" THEN result.text ELSE snippet

\* the source record of a fetch
SourceOf(result, task) ==
    [title |-> task.title, url |-> task.link, snippet |-> task.snippet,
     content_fetched |-> result.kind = "page"]

\* the payload made after the gather
MarketPayload(results, tasks) ==
    LET all_content == [i \in DOMAIN tasks |-> UsedContent(results[i], tasks[i].snippet)]
        combined_text == Join(all_content, " ")
    IN  [value |-> ExtractValue(combined_text),
         growth_rate |-> ExtractGrowth(combined_text),
         forecast |-> ExtractForecast(combined_text),
         sources |-> [i \in DOMAIN tasks |-> SourceOf(results[i], tasks[i])],
         content_length |-> Len(combined_text)]

\* the call up to the gather: the early returns, or the top FetchLimit of
\* the filtered items queued and all their fetches started together
MsSearch ==
    /\ ms.pc = "call"
    /\ IF ms.response # "ok" \/ ms.items = <<>>
       THEN ms' = [ms EXCEPT !.pc = "done", !.out = EarlyPayload(ms.response)]
       ELSE LET top == Take(Filtered(ms.items), FetchLimit)
            IN  ms' = [ms EXCEPT !.pc = "gather",
                                 !.tasks = [i \in DOMAIN top |->
                                               [title |-> top[i].title, link |-> top[i].title,
                                                snippet |-> top[i].snippet]],
                                 !.results = [i \in DOMAIN top |-> Running]]
    /\ UNCHANGED <<cacheVars, concVars, ct, rc, idxVars, gen, ck, pd>>

\* one of the running fetches ends, whichever
MsFetchEnds(i, outcome) ==
    /\ ms.pc = "gather"
    /\ i \in DOMAIN ms.results
    /\ ms.results[i] = Running
    /\ ms' = [ms EXCEPT !.results[i] = outcome]
    /\ UNCHANGED <<cacheVars, concVars, ct, rc, idxVars, gen, ck, pd>>

\* all fetches have ended: the gather returns, the results are processed
\* in the order of the tasks and the payload is returned
MsReturn ==
    /\ ms.pc = "gather"
    /\ \A i \in DOMAIN ms.results : ms.results[i] # Running
    /\ ms' = [ms EXCEPT !.pc = "done", !.out = MarketPayload(ms.results, ms.tasks)]
    /\ UNCHANGED <<cacheVars, concVars, ct, rc, idxVars, gen, ck, pd>>

SearchInit ==
    /\ store = EmptyCol
    /\ index = <<>>
    /\ ix = NoCall
    /\ gen = NoCall
    /\ sw = NoCall
    /\ ck = NoCall
    /\ pd = NoCall
    /\ clock = 0
    /\ last = [op |-> "none"]
    /\ keyq = NoKeys
    /\ procs = NoProcs
    /\ writes = <<>>
    /\ ct = NoCall
    /\ rc = NoCall
    /\ \/ ms \in [pc : {"call"}, response : {"ok"}, items : ItemLists, tasks : {<<>>},
                  results : {<<>>}, out : {Placeholder("")}]
       \/ ms \in [pc : {"call"}, response : Responses \ {"ok"}, items : {<<>>},
                  tasks : {<<>>}, results : {<<>>}, out : {Placeholder("")}]

SearchNext ==
    \/ MsSearch
    \/ \E i \in 1..FetchLimit, outcome \in FetchOutcomes : MsFetchEnds(i, outcome)
    \/ MsReturn

SpecSearch == SearchInit /\ [][SearchNext]_vars

-----------------------------------------------------------------------------
(* generate_pitch_deck: the request from the clone to the files, a step    *)
(* for each call it awaits                                                 *)

\* the k and max_context_chars generate_pitch_deck gives retrieve_context
PipelineK == 30
PipelineBudget == 20000

\* the blocks the loop of retrieve_context has when it ends
RECURSIVE ContextParts(_, _, _, _, _)
ContextParts(results, max_context_chars, i, context_parts, total_chars) ==
    IF i > Len(results) \/ OverBudget(total_chars, results[i].doc, max_context_chars)
    THEN context_parts
    ELSE ContextParts(results, max_context_chars, i + 1,
                      Append(context_parts, Block(results[i])),
                      total_chars + Counted(results[i]))

\* retrieve_context(query, repo_url, k, max_context_chars) on the collection
retrieve_context(col, query, k, max_context_chars) ==
    IF NoDocuments(QueryResults(col, query, k)) THEN NoResultsSentinel
    ELSE Assemble(ContextParts(QueryResults(col, query, k), max_context_chars, 1, <<>>, 0))

\* _detect_tech_from_context on the contexts met here, whose capital
\* letters are those of the headers and of the sentinels: the first three
\* technologies one of whose indicators is in the context
TechIndicators ==
    << [tech |-> "AI", indicators |-> {"ai", "artificial intelligence",
                                       "machine learning", "ml", "gpt", "llm"}],
       [tech |-> "Python", indicators |-> {"python", ".py", "django", "flask", "fastapi"}],
       [tech |-> "JavaScript", indicators |-> {"javascript", ".js", "react", "vue",
                                               "angular", "node"}],
       [tech |-> "TypeScript", indicators |-> {"typescript", ".ts", "tsx"}],
       [tech |-> "Blockchain", indicators |-> {"blockchain", "web3", "ethereum",
                                               "smart contract"}] >>

DetectTech(context) ==
    LET found == SelectSeq(TechIndicators,
                           LAMBDA t : \E ind \in t.indicators : Contains(context, ind))
    IN  Take([i \in DOMAIN found |-> found[i].tech], 3)

\* what analyze_repository_sector returns: what the inference call gave,
\* or the fallback when the call or the parsing of its output failed
SectorData(context, llm_ok) ==
    IF llm_ok
    THEN [primary_sector |-> "education", secondary_tech |-> <<"AI">>, success |-> TRUE]
    ELSE [primary_sector |-> "software", secondary_tech |-> DetectTech(context),
          success |-> FALSE]

\* the response of the except clause
Failure(error) ==
    [success |-> FALSE, message |-> "Failed to generate pitch deck", error |-> error]

Success == [success |-> TRUE, message |-> "Pitch deck generated successfully"]

\* a step of the request raises: the except clause answers
PdFail(error) ==
    pd' = [pd EXCEPT !.pc = "done", !.response = Failure(error)]

\* a step of the request returns
PdStep(pc, step) ==
    pd' = [pd EXCEPT !.pc = pc, !.steps = Append(@, step)]

\* a request arrives
PdRequest ==
    /\ pd.pc \in {"idle", "done"}
    /\ pd.runs < MaxRuns
    /\ pd' = [pd EXCEPT !.pc = "get_repo", !.runs = @ + 1, !.steps = <<>>,
                        !.context = "", !.response = [success |-> FALSE]]
    /\ UNCHANGED <<cacheVars, concVars, ct, rc, idxVars, gen, ck, ms>>

\* get_repo: the clone fails, or the snapshot is returned
PdGetRepo(cloned, repo_data) ==
    /\ pd.pc = "get_repo"
    /\ IF cloned
       THEN pd' = [pd EXCEPT !.pc = "index_repo", !.steps = Append(@, "get_repo"),
                             !.snapshot = repo_data]
       ELSE PdFail("clone failed")
    /\ UNCHANGED <<cacheVars, concVars, ct, rc, idxVars, gen, ck, ms>>

\* index_repo on the snapshot, then cleanup_repo.  Without a chunk
\* index_repo prints a warning and returns; an add that raises ends the
\* request.
PdIndexRepo(reject) ==
    LET chunks == AllChunks[pd.snapshot]
        existing == ChunkIds(chunks) \cap StoredIds(index)
        twice == Cardinality(ChunkIds(chunks)) < Len(chunks)
        raised == chunks # <<>> /\ (twice \/ (reject /\ existing # {}))
    IN  /\ pd.pc = "index_repo"
        /\ reject => existing # {}
        /\ index' = IF chunks = <<>> \/ raised THEN index ELSE VecAdd(index, chunks)
        /\ IF raised THEN PdFail("add failed") ELSE PdStep("retrieve_context", "index_repo")
        /\ UNCHANGED <<cacheVars, concVars, ct, rc, ix, gen, ck, ms>>

\* retrieve_context with k = 30 and max_context_chars = 20000
PdRetrieveContext(query) ==
    /\ pd.pc = "retrieve_context"
    /\ pd' = [pd EXCEPT !.pc = "analyze_repository_sector",
                        !.steps = Append(@, "retrieve_context"),
                        !.context = retrieve_context(index, query, PipelineK,
                                                     PipelineBudget)]
    /\ UNCHANGED <<cacheVars, concVars, ct, rc, idxVars, gen, ck, ms>>

\* analyze_repository_sector: it returns whether its inference call
\* succeeds or not
PdSector(llm_ok) ==
    /\ pd.pc = "analyze_repository_sector"
    /\ pd' = [pd EXCEPT !.pc = "generate_market_analysis",
                        !.steps = Append(@, "analyze_repository_sector"),
                        !.sector = SectorData(pd.context, llm_ok)]
    /\ UNCHANGED <<cacheVars, concVars, ct, rc, idxVars, gen, ck, ms>>

\* generate_market_analysis returns a payload, or raises
PdMarket(raised) ==
    /\ pd.pc = "generate_market_analysis"
    /\ IF raised THEN PdFail("market analysis failed")
       ELSE PdStep("generate_pitch_deck_structure", "generate_market_analysis")
    /\ UNCHANGED <<cacheVars, concVars, ct, rc, idxVars, gen, ck, ms>>

\* generate_pitch_deck_structure returns the deck, or raises on an empty
\* or unparsable answer
PdDeck(raised) ==
    /\ pd.pc = "generate_pitch_deck_structure"
    /\ IF raised THEN PdFail("Failed to parse pitch deck JSON")
       ELSE PdStep("create_files", "generate_pitch_deck_structure")
    /\ UNCHANGED <<cacheVars, concVars, ct, rc, idxVars, gen, ck, ms>>

\* create_powerpoint and generate_script, and the response
PdFiles ==
    /\ pd.pc = "create_files"
    /\ pd' = [pd EXCEPT !.pc = "done", !.steps = Append(@, "create_files"),
                        !.response = Success]
    /\ UNCHANGED <<cacheVars, concVars, ct, rc, idxVars, gen, ck, ms>>

DeckInit ==
    /\ store = EmptyCol
    /\ index = <<>>
    /\ ix = NoCall
    /\ gen = NoCall
    /\ sw = NoCall
    /\ ck = NoCall
    /\ ms = NoCall
    /\ clock = 0
    /\ last = [op |-> "none"]
    /\ keyq = NoKeys
    /\ procs = NoProcs
    /\ writes = <<>>
    /\ ct = NoCall
    /\ rc = NoCall
    /\ pd = [pc |-> "idle", runs |-> 0, steps |-> <<>>,
             snapshot |-> [documentation |-> <<>>, commits |-> <<>>],
             context |-> "", sector |-> SectorData("", FALSE),
             response |-> [success |-> FALSE]]

DeckNext ==
    \/ PdRequest
    \/ \E cloned \in BOOLEAN, repo_data \in PipeSnapshots : PdGetRepo(cloned, repo_data)
    \/ \E reject \in BOOLEAN : PdIndexRepo(reject)
    \/ \E query \in Queries : PdRetrieveContext(query)
    \/ \E llm_ok \in BOOLEAN : PdSector(llm_ok)
    \/ \E raised \in BOOLEAN : PdMarket(raised)
    \/ \E raised \in BOOLEAN : PdDeck(raised)
    \/ PdFiles

SpecDeck == DeckInit /\ [][DeckNext]_vars

-----------------------------------------------------------------------------
(* generate_market_analysis, one request at a time *)

\* the text the inference call returns, over braces, a number, a word, a
\* code fence (written #: three backquotes on a line of their own) and a
\* blank
OutChars == {"{", "}", "1", "x", "#", " "}
Outputs == SeqsUpTo(OutChars, MaxOutLen)

\* runner.run raises, or returns a result with this final_output
Inferences ==
    {[raised |-> TRUE, output |-> <<>>]} \cup {[raised |-> FALSE, output |-> o] : o \in Outputs}

\* what search_market_size returns
MarketSizes == {Str("v1"), Str("v2")}

\* the parameters of the requests
GenParams == <<<<"a">>, <<>>, <<>>>>

\* json.loads(s) on such a text: a number, an object without members, or
\* a JSONDecodeError
json_loads_text(s) ==
    LET t == Strip(s)
    IN  IF t # <<>> /\ \A i \in DOMAIN t : t[i] = "1"
        THEN [kind |-> "number"]
        ELSE IF /\ Len(t) >= 2
                /\ t[1] = "{"
                /\ t[Len(t)] = "}"
                /\ \A i \in 2..(Len(t) - 1) : IsSpace(t[i])
        THEN [kind |-> "object", members |-> EmptyCol]
        ELSE [kind |-> "error"]

\* re.search of the fenced-block pattern in s: what stands between the
\* first fence and the one after it
FenceMatch(s) ==
    LET fences == {i \in DOMAIN s : s[i] = "#"}
        open == CHOOSE i \in fences : \A j \in fences : i <= j
        close == CHOOSE i \in fences \ {open} : \A j \in fences \ {open} : i <= j
    IN  IF Cardinality(fences) >= 2
        THEN [found |-> TRUE, group |-> SubSeq(s, open + 1, close - 1)]
        ELSE [found |-> FALSE]

\* the text given to json.loads: the fenced block if there is one, then,
\* unless that starts with a brace, what stands from the first "{" to the
\* last "}"
CleanOutput(output) ==
    LET stripped == Strip(output)
        json_match == FenceMatch(stripped)
        fenced == IF json_match.found THEN Strip(json_match.group) ELSE stripped
        json_start == Find(fenced, <<"{">>)
        json_end == RFind(fenced, "}", 0, Len(fenced))
    IN  IF fenced # <<>> /\ fenced[1] = "{" THEN fenced
        ELSE IF json_start # -1 /\ json_end # -1 /\ json_end > json_start
        THEN Slice(fenced, json_start, json_end + 1)
        ELSE fenced

\* {"market_size": market_size_data, **exa_data}
MarketData(market_size_data, exa_data) ==
    exa_data.members @@ ("market_size" :> market_size_data)

\* the payload of the except json.JSONDecodeError branch
FallbackPayload(market_size_data) ==
    ("market_size" :> market_size_data)
    @@ ("competitive_landscape" :>
           [key_competitors |-> <<>>, market_leaders |-> <<>>,
            competitive_advantage |-> "Data not available"])
    @@ ("trends" :> [current_trends |-> <<>>, opportunities |-> <<>>, challenges |-> <<>>])
    @@ ("target_market" :>
           [segment_size |-> "Data not available", pain_points |-> <<>>,
            adoption_drivers |-> <<>>])
    @@ ("sources" :> <<>>)

\* the payload of the except Exception branch
ErrorPayload(e) ==
    ("error" :> Str(e)) @@ ("message" :> Str("Failed to generate market analysis"))

Returned(payload) == [kind |-> "return", payload |-> payload]
Raised(exc) == [kind |-> "raise", exc |-> exc]

\* the try block up to the cache write: the exception it ends with, if any,
\* and whether the import of json inside it has run by then
TryBody(inference, market_size_data) ==
    IF inference.raised
    THEN [exc |-> "RuntimeError", json_bound |-> FALSE]
    ELSE IF Strip(inference.output) = <<>>
    THEN [exc |-> "ValueError", json_bound |-> FALSE]
    ELSE LET exa_data == json_loads_text(CleanOutput(inference.output))
         IN  IF exa_data.kind = "error"
             THEN [exc |-> "JSONDecodeError", json_bound |-> TRUE]
             ELSE IF exa_data.kind # "object"
             THEN [exc |-> "TypeError", json_bound |-> TRUE]
             ELSE [exc |-> "none", json_bound |-> TRUE,
                   market_data |-> MarketData(market_size_data, exa_data)]

\* the except clauses: json.JSONDecodeError is looked up first, and json is
\* a local of the function, bound by the import inside the try block
Handlers(body, market_size_data) ==
    IF ~body.json_bound THEN Raised("UnboundLocalError")
    ELSE IF body.exc = "JSONDecodeError" THEN Returned(FallbackPayload(market_size_data))
    ELSE Returned(ErrorPayload(body.exc))

\* a cached payload counts as a hit
IsHit_Never(cached_data) == FALSE

\* if cached_data:
IsHit(cached_data) == cached_data.kind = "hit"

\* a failed cache write ending the request with the error payload
AfterWriteFault_Error(market_data) == Returned(ErrorPayload("cache_error"))

\* except Exception as cache_error: a warning is printed and market_data
\* is returned
AfterWriteFault(market_data) == Returned(market_data)

\* a request arrives
GenCall ==
    /\ gen.pc \in {"idle", "returned"}
    /\ \E use_cache \in BOOLEAN :
           gen' = [pc |-> "cache", use_cache |-> use_cache, cache_ttl_days |-> MaxTtl,
                   read_fault |-> FALSE, write_fault |-> FALSE, cached_data |-> Miss,
                   market_size_data |-> Str(""), inference |-> [raised |-> FALSE, output |-> <<>>],
                   market_data |-> EmptyCol, result |-> [kind |-> "none"], trace |-> <<>>]
    /\ UNCHANGED <<cacheVars, concVars, svcVars, ct, rc, idxVars>>

\* use_cache is off: the cache is not read
GenSkipCache ==
    /\ gen.pc = "cache"
    /\ ~gen.use_cache
    /\ gen' = [gen EXCEPT !.pc = "search"]
    /\ UNCHANGED <<cacheVars, concVars, svcVars, ct, rc, idxVars>>

\* get_cached_market_analysis returns: a hit ends the request
GenCacheRead ==
    /\ gen.pc = "cache"
    /\ gen.use_cache
    /\ Get(GenParams)
    /\ gen' = [gen EXCEPT !.cached_data = last'.result,
                          !.trace = Append(@, "read"),
                          !.pc = IF IsHit(last'.result) THEN "returned" ELSE "search",
                          !.result = IF IsHit(last'.result)
                                     THEN Returned(last'.result.data) ELSE @]
    /\ UNCHANGED <<keyq, concVars, svcVars, ct, rc, idxVars>>

\* a storage operation of get_cached_market_analysis raises: its except
\* clause returns None
GenCacheReadFault ==
    /\ gen.pc = "cache"
    /\ gen.use_cache
    /\ gen' = [gen EXCEPT !.read_fault = TRUE, !.cached_data = Miss,
                          !.trace = Append(@, "read"), !.pc = "search"]
    /\ UNCHANGED <<cacheVars, concVars, svcVars, ct, rc, idxVars>>

\* search_market_size returns
GenSearch ==
    /\ gen.pc = "search"
    /\ \E market_size_data \in MarketSizes :
           gen' = [gen EXCEPT !.market_size_data = market_size_data,
                              !.trace = Append(@, "search"), !.pc = "infer"]
    /\ UNCHANGED <<cacheVars, concVars, svcVars, ct, rc, idxVars>>

\* runner.run returns or raises
GenInfer ==
    /\ gen.pc = "infer"
    /\ \E inference \in Inferences :
           gen' = [gen EXCEPT !.inference = inference,
                              !.trace = Append(@, "infer"), !.pc = "parse"]
    /\ UNCHANGED <<cacheVars, concVars, svcVars, ct, rc, idxVars>>

\* the rest of the try block up to the cache write, and the except clauses
GenParse ==
    /\ gen.pc = "parse"
    /\ LET body == TryBody(gen.inference, gen.market_size_data)
       IN  gen' = IF body.exc # "none"
                  THEN [gen EXCEPT !.pc = "returned",
                                   !.result = Handlers(body, gen.market_size_data)]
                  ELSE IF gen.use_cache
                  THEN [gen EXCEPT !.pc = "write", !.market_data = body.market_data]
                  ELSE [gen EXCEPT !.pc = "returned", !.market_data = body.market_data,
                                   !.result = Returned(body.market_data)]
    /\ UNCHANGED <<cacheVars, concVars, svcVars, ct, rc, idxVars>>

\* cache_market_analysis stores the result and the result is returned
GenCacheWrite ==
    /\ gen.pc = "write"
    /\ Put(GenParams, gen.market_data, gen.cache_ttl_days, 0)
    /\ gen' = [gen EXCEPT !.trace = Append(@, "write"), !.pc = "returned",
                          !.result = Returned(gen.market_data)]
    /\ UNCHANGED <<keyq, concVars, svcVars, ct, rc, idxVars>>

\* cache_market_analysis raises and nothing is stored
GenCacheWriteFault ==
    /\ gen.pc = "write"
    /\ gen' = [gen EXCEPT !.write_fault = TRUE, !.trace = Append(@, "write_fault"),
                          !.pc = "returned", !.result = AfterWriteFault(gen.market_data)]
    /\ UNCHANGED <<cacheVars, concVars, svcVars, ct, rc, idxVars>>

GenInit ==
    /\ store = EmptyCol
    /\ index = <<>>
    /\ ix = NoCall
    /\ gen = NoCall
    /\ sw = NoCall
    /\ ck = NoCall
    /\ ms = NoCall
    /\ pd = NoCall
    /\ clock = 0
    /\ last = [op |-> "none"]
    /\ keyq = NoKeys
    /\ procs = NoProcs
    /\ writes = <<>>
    /\ ct = NoCall
    /\ rc = NoCall

GenNext ==
    \/ GenCall
    \/ GenSkipCache
    \/ GenCacheRead
    \/ GenCacheReadFault
    \/ GenSearch
    \/ GenInfer
    \/ GenParse
    \/ GenCacheWrite
    \/ GenCacheWriteFault

SpecGen == GenInit /\ [][GenNext]_vars

-----------------------------------------------------------------------------
(* The retriever claims *)

\* the longest header among the results
MaxHeaderLen(results) ==
    LET lens == {Len(Header(results[j].metadata)) : j \in DOMAIN results}
    IN  CHOOSE h \in lens : \A g \in lens : g <= h

\* C9: the context returned is never longer than max_context_chars plus one
\* header (with the two newlines of its block) and one delimiter, however
\* many blocks it holds.
C9_ContextBudget ==
    (rc.pc = "done" /\ rc.context_parts # <<>>) =>
        Len(rc.out) <= rc.max_context_chars + MaxHeaderLen(rc.results) + 2 + Len(Delimiter)

\* C10: the empty-results sentinel is returned exactly when the query
\* returned nothing, and the size-limit sentinel exactly when it returned
\* results and the first of them is larger than max_context_chars, so that
\* no block was included.
C10_Sentinels ==
    rc.pc = "done" =>
        /\ rc.out = NoResultsSentinel <=> rc.results = <<>>
        /\ rc.out = "No relevant context found within size limits." <=>
               (rc.results # <<>> /\ Len(rc.results[1].doc) > rc.max_context_chars)
        /\ "No relevant context found within size limits." # NoResultsSentinel

\* results exist and the first does not fit
C10_Witness ==
    /\ rc.pc = "done"
    /\ rc.results # <<>>
    /\ Len(rc.results[1].doc) > rc.max_context_chars
    /\ rc.out = SizeLimitSentinel

\* the blocks of the first m results, in ranked order
FirstBlocks(results, m) == [j \in 1..m |-> Block(results[j])]

\* what the loop has counted once the first m results are included
RECURSIVE CountedUpTo(_, _)
CountedUpTo(results, m) ==
    IF m = 0 THEN 0 ELSE CountedUpTo(results, m - 1) + Counted(results[m])

\* C11: the blocks of the returned string are exactly the first m results
\* of the ranked list, in the list's order, for some m >= 0: every one of
\* the first m fitted when its turn came, result m + 1 (if there is one) did
\* not, and nothing ranked below it is included, whether it would fit or not.
C11_GreedyPrefix ==
    (rc.pc = "done" /\ rc.results # <<>>) =>
        \E m \in 0..Len(rc.results) :
            /\ rc.out = IF m = 0 THEN "No relevant context found within size limits."
                        ELSE Join(FirstBlocks(rc.results, m), "\n---\n\n")
            /\ \A j \in 1..m :
                   CountedUpTo(rc.results, j - 1) + Len(rc.results[j].doc)
                       <= rc.max_context_chars
            /\ m < Len(rc.results) =>
                   CountedUpTo(rc.results, m) + Len(rc.results[m + 1].doc)
                       > rc.max_context_chars

\* the second result does not fit, the third would, and only the first is
\* in the string returned
C11_Witness ==
    /\ rc.pc = "done"
    /\ Len(rc.results) = 3
    /\ Len(rc.context_parts) = 1
    /\ rc.out = Block(rc.results[1])
    /\ rc.total_chars + Len(rc.results[2].doc) > rc.max_context_chars
    /\ rc.total_chars + Len(rc.results[3].doc) <= rc.max_context_chars
    /\ Block(rc.results[3]) # Block(rc.results[1])

-----------------------------------------------------------------------------
(* The indexer claims *)

\* how many entries of the collection are stored under id
CountOf(col, id) == Cardinality({k \in DOMAIN col : col[k].id = id})

\* C15: when index_repo is run twice on the same snapshot (the first run
\* returned), the collection after the second run is the one the first run
\* left, and it holds exactly one entry for every chunk id of the snapshot
\* and no id twice.
C15_IdempotentIndex ==
    (/\ ix.pc = "done"
     /\ ix.prev.called
     /\ ~ix.prev.raised
     /\ ix.prev.snapshot = ix.snapshot) =>
        /\ index = ix.before
        /\ \A id \in ChunkIds(AllChunks[ix.snapshot]) : CountOf(index, id) = 1
        /\ \A id \in StoredIds(index) : CountOf(index, id) = 1

\* the snapshot with the long document and a commit run twice, the second
\* add leaving the stored entries as they are: three doc chunks and a commit
\* chunk
C15_Witness ==
    /\ ix.pc = "done"
    /\ ix.runs = 2
    /\ ix.prev.snapshot = ix.snapshot
    /\ ~ix.prev.raised
    /\ ~ix.raised
    /\ Len(AllChunks[ix.snapshot]) = 4
    /\ [k \in 1..4 |-> Len(index[k].document)] = <<1500, 1500, 400, 50>>
    /\ index[3].id = <<"d", "o", "c", ":", "R", ":", "2">>
    /\ index[4].id = <<"c", "o", "m", "m", "i", "t", ":", "s", ":", "0">>

\* C16: after index_repo has run, every chunk of the snapshot it was given
\* is what the collection holds under the chunk's id: the chunk's text and
\* metadata, also when another text or metadata was stored under that id
\* before the run.
C16_UpsertById ==
    ix.pc = "done" =>
        \A k \in DOMAIN AllChunks[ix.snapshot] :
            LET chunk == AllChunks[ix.snapshot][k]
            IN  /\ chunk.id \in StoredIds(index)
                /\ \A j \in DOMAIN index :
                       index[j].id = chunk.id =>
                           /\ index[j].document = chunk.text
                           /\ index[j].metadata = chunk.metadata

-----------------------------------------------------------------------------
(* The claims on index_repo followed by retrieve_context *)

\* C21: retrieve_context on a collection nothing has been added to gets no
\* result from the query and returns the no-results sentinel to its
\* caller; no step of it raises.
C21_NeverIndexedRecoverable ==
    (rc.pc # "idle" /\ rc.col = <<>>) =>
        /\ rc.results = <<>>
        /\ rc.pc \in {"call", "done"}
        /\ rc.pc = "done" => rc.out = NoResultsSentinel

C21_Witness ==
    /\ rc.pc = "done"
    /\ ix.runs = 0
    /\ rc.col = <<>>
    /\ rc.k = QueryK
    /\ rc.out = NoResultsSentinel

\* C22: after index_repo on a snapshot of one README of 3000 characters and
\* one commit with a message of 50 characters and an empty diff, on a
\* collection that was empty, retrieve_context with k = 5 and
\* max_context_chars = 10000 returns a string that has a
\* "[Documentation: README" header and the commit message in it, the blocks
\* in the order of the query results.
C22_EndToEnd ==
    ( /\ rc.pc = "done"
      /\ rc.k = QueryK
      /\ rc.max_context_chars = QueryBudget
      /\ ix.runs = 1
      /\ ~ix.raised
      /\ rc.col = index
      /\ \E files \in {<<>>, << <<"f">> >>} : ix.snapshot = Scenario(files) ) =>
        /\ Contains(rc.out, "[Documentation: README")
        /\ Contains(rc.out, AsString(ScenarioMessage))
        /\ rc.out = Join([j \in 1..Len(rc.results) |-> Block(rc.results[j])], Delimiter)

\* C30: no step of index_repo or retrieve_context removes or changes a
\* stored entry; an index_repo call whose snapshot gives no chunk leaves
\* the collection as it was; and a query that asks for as many results as
\* there are entries returns every stored entry, those of earlier
\* snapshots too.
C30_IndexOnlyAdds ==
    [][ /\ \A n \in DOMAIN index : n \in DOMAIN index' /\ index'[n] = index[n]
        /\ (ix'.runs # ix.runs /\ AllChunks[ix'.snapshot] = <<>>) => index' = index
        /\ (rc'.pc = "call" /\ rc'.k >= Len(index')) =>
              \A n \in DOMAIN index' :
                  \E j \in DOMAIN rc'.results : rc'.results[j] = AllResults[index'[n]] ]_vars

C30_Witness ==
    /\ rc.pc = "done"
    /\ ix.runs = 2
    /\ ix.snapshot = Scenario(<<>>)
    /\ rc.col = index
    /\ rc.k >= Len(index)
    /\ \E n \in DOMAIN index : index[n].id = DocId(<<"R">>, 0)
    /\ \E j \in DOMAIN rc.results : MetaGet(rc.results[j].metadata, "path", "") = "R"
    /\ Contains(rc.out, "[Documentation: R]")

-----------------------------------------------------------------------------
(* The chunk_documentation and chunk_commits claims *)

\* the sum of counts[1..n]
RECURSIVE SumTo(_, _)
SumTo(counts, n) == IF n = 0 THEN 0 ELSE SumTo(counts, n - 1) + counts[n]

IsBlank(content) == \A i \in DOMAIN content : IsSpace(content[i])

\* what chunk_text cuts the contents of the documents in
RECURSIVE TextTable(_)
TextTable(T) ==
    IF T = {} THEN <<>>
    ELSE LET text == CHOOSE x \in T : TRUE
         IN  (text :> chunk_text(text, DocChunkSize, DocOverlap)) @@ TextTable(T \ {text})

DocTextChunks == TextTable({d.content : d \in DocInputs})

\* the number of chunks C23 gives a document
DocCount(doc, max_chunks_per_doc) ==
    IF IsBlank(doc.content) THEN 0
    ELSE Min(Len(DocTextChunks[doc.content]), max_chunks_per_doc)

\* C23: chunk_documentation gives no chunk for a document without content
\* or of white space only, and for every other document the first
\* min(n, max_chunks_per_doc) of the n chunks chunk_text cuts it in, under
\* the document's path, with chunk_idx 0, 1, ... in order and total_chunks
\* the capped count on each.
C23_DocChunkCount ==
    (ck.pc = "done" /\ ck.fn = "chunk_documentation") =>
        LET counts == [j \in DOMAIN ck.docs |->
                          DocCount(ck.docs[j], ck.max_chunks_per_doc)]
        IN  /\ Len(ck.out) = SumTo(counts, Len(ck.docs))
            /\ \A j \in DOMAIN ck.docs : \A i \in 1..counts[j] :
                  LET chunk == ck.out[SumTo(counts, j - 1) + i]
                  IN  /\ chunk.metadata.type = "doc"
                      /\ chunk.metadata.path = ck.docs[j].path
                      /\ chunk.metadata.chunk_idx = i - 1
                      /\ chunk.metadata.total_chunks = counts[j]
                      /\ chunk.text = DocTextChunks[ck.docs[j].content][i]

C23_Witness ==
    /\ ck.pc = "done"
    /\ ck.fn = "chunk_documentation"
    /\ ck.max_chunks_per_doc = MaxChunksPerDoc
    /\ Len(ck.docs) = 2
    /\ ck.docs[1] = [path |-> <<"R">>, content |-> <<"\n", " ">>]
    /\ ck.docs[2] = [path |-> <<"S">>, content |-> HugeDoc]
    /\ Len(DocTextChunks[HugeDoc]) > MaxChunksPerDoc
    /\ Len(ck.out) = MaxChunksPerDoc
    /\ ck.out[MaxChunksPerDoc].metadata.total_chunks = MaxChunksPerDoc

\* the number of chunks C24 gives a commit
CommitCount(commit, max_files_per_commit) ==
    IF commit.files = <<>> /\ commit.diff # <<>> THEN 1
    ELSE Min(Len(commit.files), max_files_per_commit)

\* C24: chunk_commits gives a commit with no files and a diff one chunk,
\* commit:<sha>:0, whose text ends with the first max_diff_chars characters
\* of the diff, and any other commit one chunk for each of its first
\* max_files_per_commit files, in order, commit:<sha>:<idx> with the
\* file's path as metadata file.
C24_CommitChunkCount ==
    (ck.pc = "done" /\ ck.fn = "chunk_commits") =>
        LET counts == [j \in DOMAIN ck.commits |->
                          CommitCount(ck.commits[j], ck.max_files_per_commit)]
        IN  /\ Len(ck.out) = SumTo(counts, Len(ck.commits))
            /\ \A j \in DOMAIN ck.commits : \A i \in 1..counts[j] :
                  LET commit == ck.commits[j]
                      chunk == ck.out[SumTo(counts, j - 1) + i]
                      head == Take(commit.diff, ck.max_diff_chars)
                      intro == <<"\n", "\n", "D", "i", "f", "f", ":", "\n">>
                  IN  /\ chunk.id = CommitId(commit.hash, i - 1)
                      /\ chunk.metadata.sha = commit.hash
                      /\ IF commit.files = <<>>
                         THEN /\ chunk.metadata.file = None
                              /\ Len(chunk.text) >= Len(intro \o head)
                              /\ SubSeq(chunk.text, Len(chunk.text) - Len(intro \o head) + 1,
                                        Len(chunk.text)) = intro \o head
                         ELSE chunk.metadata.file = commit.files[i]

C24_Witness ==
    /\ ck.pc = "done"
    /\ ck.fn = "chunk_commits"
    /\ ck.max_files_per_commit = MaxFilesPerCommit
    /\ ck.max_diff_chars = MaxDiffChars
    /\ Len(ck.commits) = 2
    /\ ck.commits[1].files = <<>>
    /\ ck.commits[1].diff = LongDiff
    /\ Len(LongDiff) > MaxDiffChars
    /\ ck.commits[2].files = SixFiles
    /\ Len(ck.out) = 1 + MaxFilesPerCommit
    /\ ck.out[1].id = CommitId(ck.commits[1].hash, 0)
    /\ ck.out[6].metadata.file = <<"j">>

-----------------------------------------------------------------------------
(* The search_market_size claims *)

\* C25: search_market_size starts at most 3 page fetches for a query, all
\* of them running before any has ended; whichever of them raise or return
\* an empty string or None, the call returns the market-size payload with
\* one source record for each fetch started, in the order of the results,
\* and the text it was made of has the snippet of the result in place of
\* the page of every fetch that failed.
C25_FanOutTolerant ==
    /\ ms.pc \in {"gather", "done"} =>
          /\ Len(ms.tasks) = Len(ms.results)
          /\ Len(ms.tasks) <= 3
          /\ Len(ms.tasks) = Min(3, Len(Filtered(ms.items)))
    /\ (ms.pc = "done" /\ ms.tasks # <<>>) =>
          /\ DOMAIN ms.out = {"value", "growth_rate", "forecast", "sources", "content_length"}
          /\ Len(ms.out.sources) = Len(ms.tasks)
          /\ \A i \in DOMAIN ms.tasks :
                /\ ms.out.sources[i].title = ms.tasks[i].title
                /\ ms.out.sources[i].snippet = ms.tasks[i].snippet
                /\ ms.out.sources[i].content_fetched = (ms.results[i].kind = "page")
          /\ ms.out.content_length =
                Len(Join([i \in DOMAIN ms.tasks |->
                             IF ms.results[i].kind = "page" THEN PageText
                             ELSE ms.tasks[i].snippet], " "))
          /\ (\E i \in DOMAIN ms.tasks :
                 ms.results[i].kind # "page" /\ ms.tasks[i].snippet = "$1B")
                => ms.out.value = "$1B"

C25_Witness ==
    /\ ms.pc = "done"
    /\ Len(ms.items) > 3
    /\ Len(ms.tasks) = 3
    /\ ms.results[1].kind = "raised"
    /\ ms.results[2].kind = "none"
    /\ ms.results[3].kind = "page"
    /\ ms.tasks[1].snippet = "$1B"
    /\ Len(ms.out.sources) = 3
    /\ ms.out.value = "$1B"
    /\ ms.out.growth_rate = "9% CAGR"

-----------------------------------------------------------------------------
(* The generate_pitch_deck claims *)

\* C26: a request whose repository gives index_repo no chunk at all ends
\* with the failure response and does not go on to the sector analysis,
\* the market analysis and the drafting of the deck.
C26_NoChunksIsFatal ==
    ("index_repo" \in {pd.steps[n] : n \in DOMAIN pd.steps}
        /\ AllChunks[pd.snapshot] = <<>>) =>
        /\ pd.pc \in {"retrieve_context", "analyze_repository_sector", "done"}
        /\ pd.pc = "done" => ~pd.response.success
        /\ "analyze_repository_sector" \notin {pd.steps[n] : n \in DOMAIN pd.steps}

-----------------------------------------------------------------------------
(* The generate_market_analysis claims *)

\* what the try block and its except clauses give the caller when no cache
\* call fails
Computed(inference, market_size_data) ==
    LET body == TryBody(inference, market_size_data)
    IN  IF body.exc = "none" THEN Returned(body.market_data)
        ELSE Handlers(body, market_size_data)

\* C17: a request in which a cache read or a cache write failed has run the
\* search and the inference, and its caller gets what the computation gave:
\* after a failed write, the computed market data, never an exception and
\* never an error payload.
C17_CacheFaultIsMiss ==
    (gen.pc = "returned" /\ (gen.read_fault \/ gen.write_fault)) =>
        /\ SubSeq(gen.trace, 1, 3) = <<"read", "search", "infer">>
        /\ gen.result = Computed(gen.inference, gen.market_size_data)
        /\ gen.write_fault =>
               /\ gen.result.kind = "return"
               /\ "error" \notin DOMAIN gen.result.payload
               /\ gen.result.payload["market_size"] = gen.market_size_data

\* the read failed, the write failed, and the analysis is returned
C17_Witness ==
    /\ gen.pc = "returned"
    /\ gen.read_fault
    /\ gen.write_fault
    /\ gen.result = Returned(("market_size" :> gen.market_size_data))
    /\ store = EmptyCol

\* the entry a step has written, if it has written one
Written(col, col2) ==
    {id \in DOMAIN col2 : id \notin DOMAIN col \/ col[id] # col2[id]}

\* C18: an entry is written only by a request that has read the cache for
\* the key and missed, then searched, then got inference output that parsed
\* as a JSON object; a request that hits has made no search, inference or
\* write; a request that ends on the fallback or the error path, or by
\* raising, has written nothing.
C18_CacheLifecycle ==
    [][ /\ Written(store, store') # {} =>
              /\ Written(store, store') = {get_cache_key(GenParams)}
              /\ gen.use_cache
              /\ gen.trace = <<"read", "search", "infer">>
              /\ ~IsHit(gen.cached_data)
              /\ ~gen.inference.raised
              /\ json_loads_text(CleanOutput(gen.inference.output)).kind = "object"
        /\ (gen'.pc = "returned" /\ gen.pc # "returned") =>
              /\ gen'.cached_data.kind = "hit" =>
                     (gen'.trace = <<"read">> /\ store' = store)
              /\ (\/ gen'.result.kind = "raise"
                  \/ gen'.result.payload = FallbackPayload(gen'.market_size_data)
                  \/ "error" \in DOMAIN gen'.result.payload) =>
                     (/\ "write" \notin {gen'.trace[k] : k \in DOMAIN gen'.trace}
                      /\ store' = store) ]_vars

\* a request that hits on what an earlier request of the run has written
C18_Witness ==
    /\ gen.pc = "returned"
    /\ gen.cached_data.kind = "hit"
    /\ gen.trace = <<"read">>
    /\ gen.result.kind = "return"
    /\ gen.result.payload["market_size"] = Str("v2")
    /\ ColHas(store, get_cache_key(GenParams))

\* C19: when the inference call raises, or returns output that is empty or
\* blank, generate_market_analysis returns a payload and does not raise.
C19_InferenceFailureRecovered ==
    (/\ gen.pc = "returned"
     /\ gen.cached_data.kind # "hit"
     /\ (gen.inference.raised \/ Strip(gen.inference.output) = <<>>))
    => gen.result.kind = "return"

\* does s parse, as a number or as an object
Parses(s) == json_loads_text(s).kind # "error"

\* the output holds parseable JSON in a fenced block, or from its first
\* "{" to its last "}"
HasJson(output) ==
    LET stripped == Strip(output)
        first == Find(stripped, <<"{">>)
        endAt == RFind(stripped, "}", 0, Len(stripped))
    IN  \/ FenceMatch(stripped).found /\ Parses(FenceMatch(stripped).group)
        \/ first # -1 /\ endAt > first /\ Parses(Slice(stripped, first, endAt + 1))

\* C20: when the inference output is not blank and holds no parseable JSON,
\* in a fenced block or from the first "{" to the last "}", the payload
\* returned is the fallback: the market-size data of the search and empty
\* placeholders for the other sections.
C20_MalformedFallsBack ==
    (/\ gen.pc = "returned"
     /\ gen.cached_data.kind # "hit"
     /\ ~gen.inference.raised
     /\ Strip(gen.inference.output) # <<>>
     /\ ~HasJson(gen.inference.output))
    => gen.result = Returned(FallbackPayload(gen.market_size_data))

\* what the code keeps of C20: the same, for the outputs on which
\* json.loads raises
C20_DecodeErrorFallsBack ==
    (/\ gen.pc = "returned"
     /\ gen.cached_data.kind # "hit"
     /\ ~gen.inference.raised
     /\ Strip(gen.inference.output) # <<>>
     /\ ~Parses(CleanOutput(gen.inference.output)))
    => gen.result = Returned(FallbackPayload(gen.market_size_data))

-----------------------------------------------------------------------------
(* The chunker claims *)

\* C7: for len(text) > chunk_size and 0 <= overlap < chunk_size, every pass
\* of chunk_text's loop leaves start strictly greater than it was.
C7_StartAdvances ==
    [][ (/\ ct.pc = "loop"
         /\ ct'.pc = "loop"
         /\ Len(ct'.chunks) = Len(ct.chunks) + 1
         /\ Len(ct.text) > ct.chunk_size
         /\ 0 <= ct.overlap /\ ct.overlap < ct.chunk_size)
        => ct'.start > ct.start ]_vars

\* C8: chunk_text called with len(text) > chunk_size and
\* overlap >= chunk_size ends with an error and never enters the loop.
C8_OverlapRejected ==
    (/\ ct.pc # "idle"
     /\ ct.pc # "call"
     /\ Len(ct.text) > ct.chunk_size
     /\ ct.overlap >= ct.chunk_size)
    => ct.pc = "error"

\* C12: when chunk_text returns, every chunk other than the last is no
\* longer than chunk_size: the boundary search only moves the cut back and
\* trimming only shortens.
C12_ChunkSizeBound ==
    ct.pc = "return" =>
        \A i \in 1..(Len(ct.chunks) - 1) : Len(ct.chunks[i]) <= ct.chunk_size

\* a returned list of three chunks or more, with a chunk before the last
\* exactly as long as chunk_size
C12_Witness ==
    /\ ct.pc = "return"
    /\ Len(ct.chunks) >= 3
    /\ ct.chunk_size >= 2
    /\ \E i \in 1..(Len(ct.chunks) - 1) : Len(ct.chunks[i]) = ct.chunk_size

\* C13: no chunk returned by chunk_text for a text that is not blank is
\* empty after trimming.
C13_NoEmptyChunk ==
    (ct.pc = "return" /\ Strip(ct.text) # <<>>) =>
        \A i \in 1..Len(ct.chunks) : Strip(ct.chunks[i]) # <<>>

\* the window of pass i, before trimming
Window(i) == Slice(ct.text, ct.windows[i][1], ct.windows[i][2])

\* the last overlap characters of one window are the first of the next
SharesOverlap(i) ==
    /\ ct.windows[i + 1][1] = ct.windows[i][2] - ct.overlap
    /\ Len(Window(i)) >= ct.overlap
    /\ Len(Window(i + 1)) >= ct.overlap
    /\ SubSeq(Window(i), Len(Window(i)) - ct.overlap + 1, Len(Window(i)))
           = SubSeq(Window(i + 1), 1, ct.overlap)

\* C14: for overlap > 0 and len(text) > chunk_size, whenever a window is cut
\* at end < len(text) the next window starts at end - overlap, and the two
\* windows share overlap characters, the tail of the one and the head of
\* the other, before trimming.
C14_OverlapPreserved ==
    (ct.pc \in {"loop", "return"} /\ ct.overlap > 0 /\ Len(ct.text) > ct.chunk_size) =>
        \A i \in 1..(Len(ct.windows) - 1) :
            ct.windows[i][2] < Len(ct.text) => SharesOverlap(i)

\* what the code keeps of C14: the same, for overlap <= chunk_size // 2 + 1
C14_OverlapWithinHalf ==
    (/\ ct.pc \in {"loop", "return"}
     /\ ct.overlap > 0
     /\ ct.overlap <= ct.chunk_size \div 2 + 1
     /\ Len(ct.text) > ct.chunk_size) =>
        \A i \in 1..(Len(ct.windows) - 1) :
            ct.windows[i][2] < Len(ct.text) => SharesOverlap(i)
\* the index of the last c in the window [lo, hi) of the text, or -1
LastIn(text, c, lo, hi) ==
    LET at == {i \in lo..(hi - 1) : i >= 0 /\ i < Len(text) /\ text[i + 1] = c}
    IN  IF at = {} THEN -1 ELSE CHOOSE i \in at : \A j \in at : j <= i

\* where C27 places the cut of the window that starts at start
SeekCut(text, chunk_size, start) ==
    LET mid == start + chunk_size \div 2
        newline == LastIn(text, "\n", start, start + chunk_size)
        space == LastIn(text, " ", start, start + chunk_size)
    IN  IF newline >= 0 /\ newline > mid THEN newline + 1
        ELSE IF space >= 0 /\ space > mid THEN space + 1
        ELSE start + chunk_size

\* C27: a window [start, start + chunk_size) that ends before the end of
\* the text is cut just after its last newline when that lies past
\* start + chunk_size // 2, else just after its last space when that lies
\* past it, else at start + chunk_size; and a text no longer than
\* chunk_size is returned whole as the only chunk.
C27_BoundarySeeking ==
    /\ \A n \in DOMAIN ct.windows :
          ct.windows[n][1] + ct.chunk_size < Len(ct.text) =>
              ct.windows[n][2] = SeekCut(ct.text, ct.chunk_size, ct.windows[n][1])
    /\ (ct.pc = "return" /\ Len(ct.text) <= ct.chunk_size) => ct.chunks = <<ct.text>>

\* the windows of a call that has returned: those of the loop, or the
\* whole text when it was returned as it is
CutWindows == IF Len(ct.text) <= ct.chunk_size THEN <<<<0, Len(ct.text)>>>> ELSE ct.windows

\* C29: when chunk_text returns, the first window starts at 0, every later
\* window starts at or before the end of the one before it, and the last
\* window ends at or after len(text), so that every character of the text
\* is in the slice of at least one window.
C29_NoTextLost ==
    ct.pc = "return" =>
        /\ CutWindows # <<>>
        /\ CutWindows[1][1] = 0
        /\ \A n \in 2..Len(CutWindows) : CutWindows[n][1] <= CutWindows[n - 1][2]
        /\ CutWindows[Len(CutWindows)][2] >= Len(ct.text)
        /\ \A i \in 0..(Len(ct.text) - 1) :
              \E n \in DOMAIN CutWindows :
                  /\ SliceIdx(CutWindows[n][1], Len(ct.text)) <= i
                  /\ i < SliceIdx(CutWindows[n][2], Len(ct.text))

C29_Witness ==
    /\ ct.pc = "return"
    /\ Len(ct.windows) >= 2
    /\ ct.overlap > 0
    /\ \E n \in DOMAIN ct.windows :
          /\ ct.windows[n][2] < Len(ct.text)
          /\ ct.windows[n][2] < ct.windows[n][1] + ct.chunk_size
    /\ \E n \in 2..Len(ct.windows) : ct.windows[n][1] < ct.windows[n - 1][2]

-----------------------------------------------------------------------------
(* The cache claims *)

\* C28: whatever the interleaving of the requests' gets and puts and of the
\* sweep, a step that removes the entry of a key removes one that has
\* expired at the time of the step; an entry a put has just rewritten is
\* not removed by a get or a sweep that read the expired one before it.
C28_OnlyExpiredDeleted ==
    [][ (ColHas(store, ConcId) /\ ~ColHas(store', ConcId))
            => IsExpired(store[ConcId].metadata, clock) ]_vars

GetAfterPut ==
    /\ last.op = "get"
    /\ last.prev.op = "put"
    /\ last.prev.params = last.params

\* C1 as stated: cache_market_analysis(params, payload) followed immediately
\* by get_cached_market_analysis(params) returns the payload unchanged, with
\* no key added, removed or altered.
C1_RoundTripUnchanged ==
    GetAfterPut => /\ last.result.kind = "hit"
                   /\ last.result.data = last.prev.payload

\* C1 as amended: the get right after the put is a hit, and what it returns
\* is the payload with the key _cache_info set to the entry's cached_at and
\* expires_at and from_cache = true; every other key of the payload is
\* there with its value, and no other key is.
C1_RoundTripWithCacheInfo ==
    GetAfterPut =>
        /\ last.result.kind = "hit"
        /\ LET data == last.result.data
               put == last.prev
           IN  /\ DOMAIN data = DOMAIN put.payload \cup {"_cache_info"}
               /\ \A k \in DOMAIN put.payload \ {"_cache_info"} : data[k] = put.payload[k]
               /\ data["_cache_info"] =
                      [t |-> "info", cached_at |-> put.t1,
                       expires_at |-> put.t2 + put.ttl, from_cache |-> TRUE]

\* a get right after a put of a payload that has a _cache_info key of its own
C1_Witness ==
    /\ GetAfterPut
    /\ last.result.kind = "hit"
    /\ "_cache_info" \in DOMAIN last.prev.payload

\* C2: after put(p), a get(q) with a parameter tuple q that differs from p
\* is a miss: get_cache_key gives distinct tuples distinct keys.
C2_DistinctParamsMiss ==
    (keyq.stage = "got" /\ keyq.p # keyq.q) =>
        /\ get_cache_key(keyq.p) # get_cache_key(keyq.q)
        /\ last.result = Miss

\* C3: a get never returns the payload of an entry whose expires_at is
\* earlier than the time of the read; when it finds such an entry it returns
\* a miss and the entry is gone when it returns; a get for a key that is
\* not stored is a miss and changes nothing.
C3_LazyExpiry ==
    [][ last'.op = "get" =>
          LET id == get_cache_key(last'.params)
          IN  /\ id \notin DOMAIN store =>
                    last'.result = Miss /\ store' = store
              /\ (id \in DOMAIN store /\ store[id].metadata.expires_at < last'.now) =>
                    /\ last'.result = Miss
                    /\ id \notin DOMAIN store'
                    /\ \A other \in DOMAIN store \ {id} :
                          other \in DOMAIN store' /\ store'[other] = store[other]
              /\ last'.result.kind = "hit" =>
                    /\ id \in DOMAIN store
                    /\ store[id].metadata.expires_at >= last'.now ]_vars

\* a get has found an expired entry, with another entry stored beside it
C3_Witness ==
    /\ last.op = "get"
    /\ last.found = "expired"
    /\ store # EmptyCol

\* C4: after a put the store holds one entry for the key, with the payload
\* of that put, cached_at the time of the put and
\* expires_at = cached_at + ttl.
C4_OverwriteRestamps ==
    last.op = "put" =>
        LET id == get_cache_key(last.params)
        IN  /\ id \in DOMAIN store
            /\ json_loads(store[id].document) = last.payload
            /\ store[id].metadata.cached_at = last.t1
            /\ store[id].metadata.expires_at = store[id].metadata.cached_at + last.ttl

\* the part of C4 that holds: the entry stored after a put has the payload
\* of that put, cached_at of its first clock read and expires_at of its
\* second clock read plus ttl
C4_OverwriteLatest ==
    last.op = "put" =>
        LET id == get_cache_key(last.params)
        IN  /\ id \in DOMAIN store
            /\ json_loads(store[id].document) = last.payload
            /\ store[id].metadata.cached_at = last.t1
            /\ store[id].metadata.expires_at = last.t2 + last.ttl

\* C5: clear_expired_cache deletes exactly the entries whose expires_at had
\* passed when it was called, returns how many it deleted and leaves every
\* other entry as it was.
C5_SweepExact ==
    [][ last'.op = "sweep" =>
          LET passed == {id \in DOMAIN store : store[id].metadata.expires_at < last'.now}
          IN  /\ DOMAIN store' = DOMAIN store \ passed
              /\ \A id \in DOMAIN store' : store'[id] = store[id]
              /\ last'.count = Cardinality(passed) ]_vars

\* a sweep has deleted an entry and left another
C5_Witness ==
    /\ last.op = "sweep"
    /\ last.count > 0
    /\ store # EmptyCol

====
